---- MODULE Spec2Model ----
(***************************************************************************)
(* Byte-level model of the persistent HAMT engine of hamt.as.ts: the       *)
(* linear memory (KEY_BUF, BATCH_BUF and the heap), the first-fit          *)
(* allocator, the refcount manager and the path-copying trie operations.   *)
(*                                                                         *)
(* A u32 that can exceed 2^31-1 (hashes, bitmaps) is kept as two 16-bit    *)
(* limbs [hi, lo]; offsets, sizes and counts are plain naturals.  The      *)
(* sentinel 0xFFFFFFFF is written NOT_FOUND == -1 (the same 32 bits read   *)
(* as a signed integer).                                                   *)
(***************************************************************************)
EXTENDS Integers, Naturals, Sequences, FiniteSets, TLC

\* ---------------------------------------------------------------- constants
BITS == 5
MASK == 31
BLOCK_HDR == 8
MIN_BLOCK == 16
KEY_BUF == 0
BATCH_BUF == 1024
STACK_BASE == 65536
HEAP_START == 73728
NOT_FOUND == -1

\* ------------------------------------------------------------------- bounds
MaxOps == 4
MaxOpsC == 3
MaxOpsB == 3
MaxOpsT == 3
MaxHandles == 3
MaxBatch == 2
MaxOpsA == 7
MaxLive == 3
MaxOpsR == 2
MaxOpsK == 3
MaxOpsV == 4
MaxOpsD == 2
MaxVecHandles == 3
MaxOpsS == 4
MaxOpsQ == 4
MaxOpsE == 3
MaxOpsP == 3
MaxOpsG == 3
MaxOpsX == 3
MaxOpsI == 3
MaxLeavesK == 2
MaxCalls == 4
MaxOpsY == 3
MaxOpsM == 6
MaxOpsU == 3
MaxGet == 2
MaxKeyLen == 4
BatchBytes == 40

\* --------------------------------------------------------------- bit tricks
\* &, | and ^ on 16-bit operands, by halves: h is half the width; popcnt
RECURSIVE BitAnd(_, _, _)
BitAnd(x, y, h) ==
  IF x = 0 \/ y = 0 THEN 0
  ELSE IF h = 0 THEN 1
  ELSE BitAnd(x % 2 ^ h, y % 2 ^ h, h \div 2) + 2 ^ h * BitAnd(x \div 2 ^ h, y \div 2 ^ h, h \div 2)

RECURSIVE BitOr(_, _, _)
BitOr(x, y, h) ==
  IF x = 0 THEN y
  ELSE IF y = 0 THEN x
  ELSE IF h = 0 THEN 1
  ELSE BitOr(x % 2 ^ h, y % 2 ^ h, h \div 2) + 2 ^ h * BitOr(x \div 2 ^ h, y \div 2 ^ h, h \div 2)

RECURSIVE BitXor(_, _, _)
BitXor(x, y, h) ==
  IF x = 0 THEN y
  ELSE IF y = 0 THEN x
  ELSE IF h = 0 THEN 0
  ELSE BitXor(x % 2 ^ h, y % 2 ^ h, h \div 2) + 2 ^ h * BitXor(x \div 2 ^ h, y \div 2 ^ h, h \div 2)

PopCount(x) == Cardinality({i \in 0 .. 15 : (x \div 2 ^ i) % 2 = 1})

\* u32 as two 16-bit limbs
W(h, l) == [hi |-> h, lo |-> l]
W0 == W(0, 0)
And32(a, b) == W(BitAnd(a.hi, b.hi, 8), BitAnd(a.lo, b.lo, 8))
Or32(a, b) == W(BitOr(a.hi, b.hi, 8), BitOr(a.lo, b.lo, 8))
Not32(a) == W(65535 - a.hi, 65535 - a.lo)
\* a - 1 (mod 2^32)
Dec32(a) == IF a.lo > 0 THEN W(a.hi, a.lo - 1) ELSE W((a.hi + 65535) % 65536, 65535)
\* 1 << i, the shift count taken mod 32 as the wasm instruction does
Shl1(i) == LET s == i % 32 IN IF s < 16 THEN W(0, 2 ^ s) ELSE W(2 ^ (s - 16), 0)
\* (h >> shift) & MASK, the shift count taken mod 32
Slot(h, shift) ==
  LET s == shift % 32 IN
  IF s >= 16 THEN (h.hi \div (2 ^ (s - 16))) % 32
  ELSE ((((h.hi % 32) * 65536) + h.lo) \div (2 ^ s)) % 32

\* popcnt
pc(a) == PopCount(a.hi) + PopCount(a.lo)

\* ------------------------------------------------------------------- memory
load8(m, a) == IF a \in DOMAIN m THEN m[a] ELSE 0
loadW(m, a) == W(load8(m, a + 2) + 256 * load8(m, a + 3), load8(m, a) + 256 * load8(m, a + 1))
load32(m, a) ==
  load8(m, a) + 256 * load8(m, a + 1) + 65536 * load8(m, a + 2) + 16777216 * load8(m, a + 3)
store8(m, a, b) == [m EXCEPT ![a] = b]
store32(m, a, v) ==
  [m EXCEPT ![a] = v % 256, ![a + 1] = (v \div 256) % 256,
            ![a + 2] = (v \div 65536) % 256, ![a + 3] = (v \div 16777216) % 256]
storeW(m, a, w) ==
  [m EXCEPT ![a] = w.lo % 256, ![a + 1] = w.lo \div 256,
            ![a + 2] = w.hi % 256, ![a + 3] = w.hi \div 256]
\* memory.copy(dst, src, n) for non-overlapping regions inside the memory
memcopy(m, dst, src, n) ==
  [a \in DOMAIN m |-> IF dst <= a /\ a < dst + n THEN load8(m, src + (a - dst)) ELSE m[a]]
\* memory.compare(p1, p2, len) == 0
memeq(m, p1, p2, len) == \A i \in 0 .. (len - 1) : load8(m, p1 + i) = load8(m, p2 + i)
\* the caller placing bytes bs at address a
writeBytes(m, a, bs) ==
  [x \in DOMAIN m |-> IF a <= x /\ x < a + Len(bs) THEN bs[x - a + 1] ELSE m[x]]
readBytes(m, a, n) == [i \in 1 .. n |-> load8(m, a + i - 1)]
\* memory.grow: the heap bytes below newEnd exist and start as zero
GrowTo(m, newEnd) ==
  LET D == DOMAIN m \cup (HEAP_START .. (newEnd - 1))
  IN [a \in D |-> IF a \in DOMAIN m THEN m[a] ELSE 0]

\* the prelude bytes the model keeps: the head of KEY_BUF, the count word
\* below BATCH_BUF and the head of BATCH_BUF
PreludeAddrs == (KEY_BUF .. (KEY_BUF + MaxKeyLen - 1)) \cup ((BATCH_BUF - 4) .. (BATCH_BUF + BatchBytes - 1))
InitMem == [a \in PreludeAddrs |-> 0]

\* engine state threaded through the operations:
\*   [mem, heapEnd, freeList, usedBytes, transientId]
R(s, r) == [st |-> s, ret |-> r]
\* const v = ...; F(v): a local evaluated once, before what follows uses it
Let(v, F(_)) == CHOOSE r \in {F(x) : x \in {v}} : TRUE

\* --------------------------------------------------------------------- hash
\* (h ^ b) * 16777619 mod 2^32, on limbs; 16777619 = 256 * 65536 + 403
FnvStep(h, b) ==
  LET x == W(h.hi, BitXor(h.lo, b, 8))
      p == x.lo * 403
  IN W((x.hi * 403 + x.lo * 256 + (p \div 65536)) % 65536, p % 65536)
\* 2166136261 = 0x811C9DC5
FnvBasis == W(33052, 40389)
\* for (i = 0; i < len; i++) h = (h ^ load<u8>(ptr + i)) * 16777619
RECURSIVE hashFrom(_, _, _, _, _)
hashFrom(m, ptr, len, i, h) ==
  IF i >= len THEN h
  ELSE Let(FnvStep(h, load8(m, ptr + i)), LAMBDA h1 : hashFrom(m, ptr, len, i + 1, h1))
hashAt(m, ptr, len) == hashFrom(m, ptr, len, 0, FnvBasis)
hash(m, len) == hashAt(m, KEY_BUF, len)
keycmp(m, ptr, len) == memeq(m, KEY_BUF, ptr, len)
keycmp2(m, p1, p2, len) == memeq(m, p1, p2, len)
keycmpAt(m, keyPtr, leafPtr, len) == memeq(m, keyPtr, leafPtr, len)

\* ---------------------------------------------------------------- allocator
RECURSIVE allocWalk(_, _, _, _)
allocWalk(st, need, prev, curr) ==
  IF curr = 0 THEN
    LET ptr == st.heapEnd
        newEnd == ptr + need
        m1 == GrowTo(st.mem, newEnd)
    IN R([st EXCEPT !.mem = store32(m1, ptr, need), !.heapEnd = newEnd,
                    !.usedBytes = @ + need], ptr + BLOCK_HDR)
  ELSE
    LET csize == load32(st.mem, curr) IN
    IF csize >= need THEN
      LET next == load32(st.mem, curr + 4)
          m1 == IF prev # 0 THEN store32(st.mem, prev + 4, next) ELSE st.mem
          fl1 == IF prev # 0 THEN st.freeList ELSE next
      IN IF csize - need >= MIN_BLOCK THEN
           LET split == curr + need
               m2 == store32(m1, split, csize - need)
               m3 == store32(m2, split + 4, fl1)
               m4 == store32(m3, curr, need)
           IN R([st EXCEPT !.mem = m4, !.freeList = split, !.usedBytes = @ + need],
                curr + BLOCK_HDR)
         ELSE R([st EXCEPT !.mem = m1, !.freeList = fl1, !.usedBytes = @ + csize],
                curr + BLOCK_HDR)
    ELSE allocWalk(st, need, curr, load32(st.mem, curr + 4))

\* the same without the header in the size
alloc_noHdr(st, bytes) ==
  LET n0 == ((bytes + 7) \div 8) * 8
      need == IF n0 < MIN_BLOCK THEN MIN_BLOCK ELSE n0
  IN allocWalk(st, need, 0, st.freeList)

alloc(st, bytes) ==
  LET n0 == ((bytes + BLOCK_HDR + 7) \div 8) * 8
      need == IF n0 < MIN_BLOCK THEN MIN_BLOCK ELSE n0
  IN allocWalk(st, need, 0, st.freeList)

\* reset() without the usedBytes line
reset_keepUsed(st) == [st EXCEPT !.heapEnd = HEAP_START, !.freeList = 0]

reset(st) == [st EXCEPT !.heapEnd = HEAP_START, !.freeList = 0, !.usedBytes = 0]

\* the walk of free: the first free block at or above `block`, and its predecessor
RECURSIVE freeWalk(_, _, _, _)
freeWalk(m, block, prev, curr) ==
  IF curr # 0 /\ curr < block THEN freeWalk(m, block, curr, load32(m, curr + 4))
  ELSE [prev |-> prev, curr |-> curr]

free(st, ptr) ==
  IF ptr = 0 THEN st
  ELSE
    LET block == ptr - BLOCK_HDR
        m == st.mem
        bsize == load32(m, block)
        used == st.usedBytes - bsize
        w == freeWalk(m, block, 0, st.freeList)
        prev == w.prev
        curr == w.curr
    IN IF prev # 0 /\ prev + load32(m, prev) = block THEN
         LET m1 == store32(m, prev, load32(m, prev) + bsize) IN
         IF curr # 0 /\ prev + load32(m1, prev) = curr THEN
           LET m2 == store32(m1, prev, load32(m1, prev) + load32(m1, curr))
               m3 == store32(m2, prev + 4, load32(m2, curr + 4))
           IN [st EXCEPT !.mem = m3, !.usedBytes = used]
         ELSE [st EXCEPT !.mem = m1, !.usedBytes = used]
       ELSE
         LET m1 == IF curr # 0 /\ block + bsize = curr
                   THEN store32(store32(m, block, bsize + load32(m, curr)),
                                block + 4, load32(m, curr + 4))
                   ELSE store32(m, block + 4, curr)
         IN IF prev # 0
            THEN [st EXCEPT !.mem = store32(m1, prev + 4, block), !.usedBytes = used]
            ELSE [st EXCEPT !.mem = m1, !.freeList = block, !.usedBytes = used]

\* ----------------------------------------------------------------- refcount
\* header word: low 24 bits refcount, high 8 bits owner
getRc(m, ptr) == load8(m, ptr) + 256 * load8(m, ptr + 1) + 65536 * load8(m, ptr + 2)
getOwner(m, ptr) == load8(m, ptr + 3)
setOwner(m, ptr, owner) == store8(m, ptr + 3, owner % 256)
storeHdr(m, ptr, owner, rc) ==
  [m EXCEPT ![ptr] = rc % 256, ![ptr + 1] = (rc \div 256) % 256,
            ![ptr + 2] = (rc \div 65536) % 256, ![ptr + 3] = owner]

incref(st, ptr) ==
  IF ptr = 0 THEN st
  ELSE LET n == getRc(st.mem, ptr) + 1
       IN [st EXCEPT !.mem = storeHdr(@, ptr, BitOr(getOwner(@, ptr), n \div 16777216, 8),
                                      n % 16777216)]

RECURSIVE decref(_, _)
RECURSIVE decrefChildren(_, _, _, _)
decrefChildren(st, ptr, i, cnt) ==
  IF i >= cnt THEN st
  ELSE decrefChildren(decref(st, load32(st.mem, ptr + 8 + 4 * i)), ptr, i + 1, cnt)

decref(st, ptr) ==
  IF ptr = 0 THEN st
  ELSE
    LET old == getRc(st.mem, ptr)
        \* rc = (v & 0xFFFFFF) - 1 as u32; 0 - 1 sets every bit of the word
        m1 == IF old = 0 THEN storeHdr(st.mem, ptr, 255, 16777215)
              ELSE storeHdr(st.mem, ptr, getOwner(st.mem, ptr), old - 1)
        st1 == [st EXCEPT !.mem = m1]
        bm == loadW(m1, ptr + 4)
    IN IF old # 1 THEN st1
       ELSE IF bm = W0 THEN free(st1, ptr)
       ELSE Let(decrefChildren(st1, ptr, 0, pc(bm)), LAMBDA st2 : free(st2, ptr))

\* ---------------------------------------------------------- leaves and nodes
allocLeafInternal(st, keyHash, keyLen, valLen) ==
  Let(alloc(st, 20 + keyLen + valLen), LAMBDA a :
    LET ptr == a.ret
        m1 == store32(a.st.mem, ptr, 1)
        m2 == store32(m1, ptr + 4, 0)
        m3 == storeW(m2, ptr + 8, keyHash)
        m4 == store32(m3, ptr + 12, keyLen)
        m5 == store32(m4, ptr + 16, valLen)
    IN R([a.st EXCEPT !.mem = m5], ptr))

allocNode(st, bm, cnt) ==
  Let(alloc(st, 8 + 4 * cnt), LAMBDA a :
    LET ptr == a.ret
        m1 == store32(a.st.mem, ptr, 1)
        m2 == storeW(m1, ptr + 4, bm)
    IN R([a.st EXCEPT !.mem = m2], ptr))

leafKeyPtr(ptr) == ptr + 20
leafKeyLen(m, ptr) == load32(m, ptr + 12)
leafValLen(m, ptr) == load32(m, ptr + 16)
leafValPtr(m, leaf) == leaf + 20 + load32(m, leaf + 12)

\* --------------------------------------------------------------- trie engine
\* merge with the incref of the existing leaf l1 forgotten
RECURSIVE merge_noIncrefL1(_, _, _, _, _, _)
merge_noIncrefL1(st, l1, h1, l2, h2, shift) ==
  IF shift >= 32 THEN
    Let(allocNode(st, W0, 2), LAMBDA a :
      LET ptr == a.ret
          m1 == store32(a.st.mem, ptr + 8, l1)
          m2 == store32(m1, ptr + 12, l2)
      IN R(incref([a.st EXCEPT !.mem = m2], l2), ptr))
  ELSE
    LET i1 == Slot(h1, shift)
        i2 == Slot(h2, shift)
    IN IF i1 = i2 THEN
         Let(merge_noIncrefL1(st, l1, h1, l2, h2, shift + BITS), LAMBDA c :
         Let(allocNode(c.st, Shl1(i1), 1), LAMBDA a :
           R([a.st EXCEPT !.mem = store32(@, a.ret + 8, c.ret)], a.ret)))
       ELSE
         Let(allocNode(st, Or32(Shl1(i1), Shl1(i2)), 2), LAMBDA a :
           LET ptr == a.ret
               st1 == incref(a.st, l2)
               lo == IF i1 < i2 THEN l1 ELSE l2
               hi == IF i1 < i2 THEN l2 ELSE l1
           IN R([st1 EXCEPT !.mem = store32(store32(@, ptr + 8, lo), ptr + 12, hi)], ptr))

RECURSIVE merge(_, _, _, _, _, _)
merge(st, l1, h1, l2, h2, shift) ==
  IF shift >= 32 THEN
    Let(allocNode(st, W0, 2), LAMBDA a :
      LET ptr == a.ret
          m1 == store32(a.st.mem, ptr + 8, l1)
          m2 == store32(m1, ptr + 12, l2)
      IN R(incref(incref([a.st EXCEPT !.mem = m2], l1), l2), ptr))
  ELSE
    LET i1 == Slot(h1, shift)
        i2 == Slot(h2, shift)
    IN IF i1 = i2 THEN
         Let(merge(st, l1, h1, l2, h2, shift + BITS), LAMBDA c :
         Let(allocNode(c.st, Shl1(i1), 1), LAMBDA a :
           R([a.st EXCEPT !.mem = store32(@, a.ret + 8, c.ret)], a.ret)))
       ELSE
         Let(allocNode(st, Or32(Shl1(i1), Shl1(i2)), 2), LAMBDA a :
           LET ptr == a.ret
               st1 == incref(incref(a.st, l1), l2)
               lo == IF i1 < i2 THEN l1 ELSE l2
               hi == IF i1 < i2 THEN l2 ELSE l1
           IN R([st1 EXCEPT !.mem = store32(store32(@, ptr + 8, lo), ptr + 12, hi)], ptr))

\* for j in [j, end): copy child j of node to slot j + delta of ptr, incref it
RECURSIVE copyChildren(_, _, _, _, _, _)
copyChildren(st, node, ptr, j, end, delta) ==
  IF j >= end THEN st
  ELSE LET c == load32(st.mem, node + 8 + 4 * j)
           st1 == [st EXCEPT !.mem = store32(@, ptr + 8 + 4 * (j + delta), c)]
       IN copyChildren(incref(st1, c), node, ptr, j + 1, end, delta)

\* copyReplace storing the copy's own offset into its slot pos
RECURSIVE copyReplace_selfLoop(_, _, _, _, _, _, _)
copyReplace_selfLoop(st, node, ptr, j, cnt, pos, newChild) ==
  IF j >= cnt THEN st
  ELSE LET c == load32(st.mem, node + 8 + 4 * j)
           st1 == IF j = pos
                  THEN [st EXCEPT !.mem = store32(@, ptr + 8 + 4 * j, ptr)]
                  ELSE incref([st EXCEPT !.mem = store32(@, ptr + 8 + 4 * j, c)], c)
       IN copyReplace_selfLoop(st1, node, ptr, j + 1, cnt, pos, newChild)

\* copyReplace storing the new child into the old node instead of the copy
RECURSIVE copyReplace_inPlace(_, _, _, _, _, _, _)
copyReplace_inPlace(st, node, ptr, j, cnt, pos, newChild) ==
  IF j >= cnt THEN st
  ELSE LET c == load32(st.mem, node + 8 + 4 * j)
           st1 == IF j = pos
                  THEN [st EXCEPT !.mem = store32(@, node + 8 + 4 * j, newChild)]
                  ELSE incref([st EXCEPT !.mem = store32(@, ptr + 8 + 4 * j, c)], c)
       IN copyReplace_inPlace(st1, node, ptr, j + 1, cnt, pos, newChild)

\* for j in [j, cnt): slot pos of ptr gets newChild, every other slot the
\* child j of node with an incref
RECURSIVE copyReplace(_, _, _, _, _, _, _)
copyReplace(st, node, ptr, j, cnt, pos, newChild) ==
  IF j >= cnt THEN st
  ELSE LET c == load32(st.mem, node + 8 + 4 * j)
           st1 == IF j = pos
                  THEN [st EXCEPT !.mem = store32(@, ptr + 8 + 4 * j, newChild)]
                  ELSE incref([st EXCEPT !.mem = store32(@, ptr + 8 + 4 * j, c)], c)
       IN copyReplace(st1, node, ptr, j + 1, cnt, pos, newChild)

RECURSIVE insertInternal(_, _, _, _)
insertInternal(st, node, leaf, shift) ==
  LET m == st.mem
      keyHash == loadW(m, leaf + 8)
      keyLen == load32(m, leaf + 12)
      bm == loadW(m, node + 4)
      bit == Shl1(Slot(keyHash, shift))
      pos == pc(And32(bm, Dec32(bit)))
      cnt == pc(bm)
  IN IF node = 0 THEN R(st, leaf)
     ELSE IF bm = W0 THEN
       IF /\ loadW(m, node + 8) = keyHash
          /\ leafKeyLen(m, node) = keyLen
          /\ keycmp2(m, leafKeyPtr(node), leafKeyPtr(leaf), keyLen)
       THEN R(st, leaf)
       ELSE merge(st, node, loadW(m, node + 8), leaf, keyHash, shift)
     ELSE IF And32(bm, bit) # W0 THEN
       Let(insertInternal(st, load32(m, node + 8 + 4 * pos), leaf, shift + BITS), LAMBDA n :
       Let(allocNode(n.st, bm, cnt), LAMBDA a :
         R(copyReplace(a.st, node, a.ret, 0, cnt, pos, n.ret), a.ret)))
     ELSE
       Let(allocNode(st, Or32(bm, bit), cnt + 1), LAMBDA a :
         LET st1 == copyChildren(a.st, node, a.ret, 0, pos, 0)
             st2 == [st1 EXCEPT !.mem = store32(@, a.ret + 8 + 4 * pos, leaf)]
         IN R(copyChildren(st2, node, a.ret, pos, cnt, 1), a.ret))

\* removeInternal that keeps the removed slot's bit in the smaller node's bitmap
RECURSIVE removeInternal_keepBit(_, _, _, _, _)
removeInternal_keepBit(st, node, keyHash, keyLen, shift) ==
  LET m == st.mem
      bm == loadW(m, node + 4)
      bit == Shl1(Slot(keyHash, shift))
      pos == pc(And32(bm, Dec32(bit)))
      cnt == pc(bm)
      child == load32(m, node + 8 + 4 * pos)
  IN IF node = 0 THEN R(st, 0)
     ELSE IF bm = W0 THEN
       IF keycmp(m, leafKeyPtr(node), keyLen) THEN R(st, 0)
       ELSE R(incref(st, node), node)
     ELSE IF And32(bm, bit) = W0 THEN R(incref(st, node), node)
     ELSE
       Let(removeInternal_keepBit(st, child, keyHash, keyLen, shift + BITS), LAMBDA n :
         IF n.ret = child THEN R(incref(n.st, node), node)
         ELSE IF n.ret = 0 THEN
           IF cnt = 1 THEN R(n.st, 0)
           ELSE
             Let(allocNode(n.st, bm, cnt - 1), LAMBDA a :
               LET st1 == copyChildren(a.st, node, a.ret, 0, pos, 0)
               IN R(copyChildren(st1, node, a.ret, pos + 1, cnt, -1), a.ret))
         ELSE
           Let(allocNode(n.st, bm, cnt), LAMBDA a :
             R(copyReplace(a.st, node, a.ret, 0, cnt, pos, n.ret), a.ret)))

RECURSIVE removeInternal(_, _, _, _, _)
removeInternal(st, node, keyHash, keyLen, shift) ==
  LET m == st.mem
      bm == loadW(m, node + 4)
      bit == Shl1(Slot(keyHash, shift))
      pos == pc(And32(bm, Dec32(bit)))
      cnt == pc(bm)
      child == load32(m, node + 8 + 4 * pos)
  IN IF node = 0 THEN R(st, 0)
     ELSE IF bm = W0 THEN
       IF keycmp(m, leafKeyPtr(node), keyLen) THEN R(st, 0)
       ELSE R(incref(st, node), node)
     ELSE IF And32(bm, bit) = W0 THEN R(incref(st, node), node)
     ELSE
       Let(removeInternal(st, child, keyHash, keyLen, shift + BITS), LAMBDA n :
         IF n.ret = child THEN R(incref(n.st, node), node)
         ELSE IF n.ret = 0 THEN
           IF cnt = 1 THEN R(n.st, 0)
           ELSE
             Let(allocNode(n.st, And32(bm, Not32(bit)), cnt - 1), LAMBDA a :
               LET st1 == copyChildren(a.st, node, a.ret, 0, pos, 0)
               IN R(copyChildren(st1, node, a.ret, pos + 1, cnt, -1), a.ret))
         ELSE
           Let(allocNode(n.st, bm, cnt), LAMBDA a :
             R(copyReplace(a.st, node, a.ret, 0, cnt, pos, n.ret), a.ret)))

RECURSIVE getInternal(_, _, _, _, _)
getInternal(m, node, keyHash, keyLen, shift) ==
  IF node = 0 THEN 0
  ELSE
    LET bm == loadW(m, node + 4) IN
    IF bm = W0 THEN
      IF /\ loadW(m, node + 8) = keyHash
         /\ leafKeyLen(m, node) = keyLen
         /\ keycmp(m, leafKeyPtr(node), keyLen)
      THEN node ELSE 0
    ELSE
      LET bit == Shl1(Slot(keyHash, shift)) IN
      IF And32(bm, bit) = W0 THEN 0
      ELSE getInternal(m, load32(m, node + 8 + 4 * pc(And32(bm, Dec32(bit)))),
                       keyHash, keyLen, shift + BITS)

\* ------------------------------------------------------------------ exports
\* stores [newRoot, existed, valPtr] at BATCH_BUF
insertKey(st, root, keyLen, valLen) ==
  Let(hash(st.mem, keyLen), LAMBDA keyHash :
  Let(allocLeafInternal(st, keyHash, keyLen, valLen), LAMBDA l :
  Let(insertInternal([l.st EXCEPT !.mem = memcopy(@, l.ret + 20, KEY_BUF, keyLen)],
                     root, l.ret, 0), LAMBDA n :
    LET \* read in the memory the call started with
        existed == IF getInternal(st.mem, root, keyHash, keyLen, 0) # 0 THEN 1 ELSE 0
        m1 == store32(n.st.mem, BATCH_BUF, n.ret)
        m2 == store32(m1, BATCH_BUF + 4, existed)
        m3 == store32(m2, BATCH_BUF + 8, l.ret + 20 + keyLen)
    IN [n.st EXCEPT !.mem = m3])))

tryRemove(st, root, keyLen) ==
  IF root = 0 THEN R(st, NOT_FOUND)
  ELSE
    Let(hash(st.mem, keyLen), LAMBDA keyHash :
    Let(removeInternal(st, root, keyHash, keyLen, 0), LAMBDA n :
      IF n.ret = root THEN R(decref(n.st, root), NOT_FOUND)
      ELSE n))

get(m, root, keyLen) ==
  Let(hash(m, keyLen), LAMBDA keyHash : getInternal(m, root, keyHash, keyLen, 0))
has(m, root, keyLen) == IF get(m, root, keyLen) # 0 THEN 1 ELSE 0
\* writes [keyLen, valLen, keyPtr] to BATCH_BUF when the key is found
getInfo_keyLenPtr(m, root, keyLen) ==
  Let(get(m, root, keyLen), LAMBDA ptr :
    IF ptr # 0
    THEN [mem |-> store32(store32(store32(m, BATCH_BUF, load32(m, ptr + 12)),
                                  BATCH_BUF + 4, load32(m, ptr + 16)),
                          BATCH_BUF + 8, ptr + 12),
          ret |-> ptr]
    ELSE [mem |-> m, ret |-> 0])

getInfo(m, root, keyLen) ==
  Let(get(m, root, keyLen), LAMBDA ptr :
    IF ptr # 0
    THEN [mem |-> store32(store32(store32(m, BATCH_BUF, load32(m, ptr + 12)),
                                  BATCH_BUF + 4, load32(m, ptr + 16)),
                          BATCH_BUF + 8, ptr + 20),
          ret |-> ptr]
    ELSE [mem |-> m, ret |-> 0])

\* ---------------------------------------------------------------- iteration
\* the iteration stack at STACK_BASE as the sequence of its words, top last
initIter(root) == IF root # 0 THEN <<root>> ELSE <<>>

\* for j = cnt down to 1: push child j-1
RECURSIVE pushChildren(_, _, _, _)
pushChildren(m, stack, ptr, j) ==
  IF j = 0 THEN stack
  ELSE pushChildren(m, Append(stack, load32(m, ptr + 8 + 4 * (j - 1))), ptr, j - 1)

\* one call of nextLeaf: the leaf returned (0 when exhausted) and the stack left
RECURSIVE nextLeaf(_, _)
nextLeaf(m, stack) ==
  IF stack = <<>> THEN [ret |-> 0, stack |-> stack]
  ELSE
    LET ptr == stack[Len(stack)]
        rest == SubSeq(stack, 1, Len(stack) - 1)
        bm == loadW(m, ptr + 4)
    IN IF bm = W0 THEN [ret |-> ptr, stack |-> rest]
       ELSE nextLeaf(m, pushChildren(m, rest, ptr, pc(bm)))

\* the leaves a caller collects by calling nextLeaf until it returns 0
RECURSIVE drainIter(_, _)
drainIter(m, stack) ==
  LET n == nextLeaf(m, stack)
  IN IF n.ret = 0 THEN <<>> ELSE <<n.ret>> \o drainIter(m, n.stack)
IterLeaves(m, root) == drainIter(m, initIter(root))

\* nextLeaves(maxCount): records [ptr, keyLen, valLen] written from BATCH_BUF on;
\* the count returned, the stack left and the memory written
RECURSIVE nextLeavesLoop(_, _, _, _, _)
nextLeavesLoop(m, stack, maxCount, count, off) ==
  IF stack = <<>> \/ count >= maxCount THEN [mem |-> m, stack |-> stack, ret |-> count]
  ELSE
    LET ptr == stack[Len(stack)]
        rest == SubSeq(stack, 1, Len(stack) - 1)
        bm == loadW(m, ptr + 4)
    IN IF bm = W0
       THEN nextLeavesLoop(store32(store32(store32(m, BATCH_BUF + off, ptr),
                                           BATCH_BUF + off + 4, load32(m, ptr + 12)),
                                   BATCH_BUF + off + 8, load32(m, ptr + 16)),
                           rest, maxCount, count + 1, off + 12)
       ELSE nextLeavesLoop(m, pushChildren(m, rest, ptr, pc(bm)), maxCount, count, off)

\* the loop going on while count <= maxCount
nextLeaves_oneMore(m, stack, maxCount) == nextLeavesLoop(m, stack, maxCount + 1, 0, 0)

nextLeaves(m, stack, maxCount) == nextLeavesLoop(m, stack, maxCount, 0, 0)

\* -------------------------------------------------------------------- batch
RECURSIVE getAt(_, _, _, _, _, _)
getAt(m, node, keyPtr, keyHash, keyLen, shift) ==
  IF node = 0 THEN 0
  ELSE
    LET bm == loadW(m, node + 4) IN
    IF bm = W0 THEN
      IF /\ loadW(m, node + 8) = keyHash
         /\ leafKeyLen(m, node) = keyLen
         /\ keycmpAt(m, keyPtr, leafKeyPtr(node), keyLen)
      THEN node ELSE 0
    ELSE
      LET bit == Shl1(Slot(keyHash, shift)) IN
      IF And32(bm, bit) = W0 THEN 0
      ELSE getAt(m, load32(m, node + 8 + 4 * pc(And32(bm, Dec32(bit)))),
                 keyPtr, keyHash, keyLen, shift + BITS)

\* batchBuf holds [keyLen:4][valLen:4][key][val]...; returns the new root and
\* stores the inserted count at BATCH_BUF - 4
RECURSIVE batchInsertLoop(_, _, _, _, _, _)
batchInsertLoop(st, root, i, count, offset, inserted) ==
  IF i >= count THEN R([st EXCEPT !.mem = store32(@, BATCH_BUF - 4, inserted)], root)
  ELSE
    LET m == st.mem
        keyLen == load32(m, BATCH_BUF + offset)
        valLen == load32(m, BATCH_BUF + offset + 4)
        keyPtr == BATCH_BUF + offset + 8
        keyHash == hashAt(m, keyPtr, keyLen)
        existed == getAt(m, root, keyPtr, keyHash, keyLen, 0)
    IN Let(allocLeafInternal(st, keyHash, keyLen, valLen), LAMBDA l :
       Let(insertInternal([l.st EXCEPT !.mem = memcopy(@, l.ret + 20, keyPtr, keyLen + valLen)],
                          root, l.ret, 0), LAMBDA n :
         batchInsertLoop(n.st, n.ret, i + 1, count, offset + 8 + keyLen + valLen,
                         IF existed = 0 THEN inserted + 1 ELSE inserted)))
batchInsert(st, root, count) == batchInsertLoop(st, root, 0, count, 0, 0)

\* the same with each result stored over its own record
RECURSIVE batchGetLoop_atRecord(_, _, _, _, _)
batchGetLoop_atRecord(m, root, i, count, readOff) ==
  IF i >= count THEN m
  ELSE Let(load32(m, BATCH_BUF + readOff), LAMBDA keyLen :
         batchGetLoop_atRecord(
           store32(m, BATCH_BUF + readOff,
                   getAt(m, root, BATCH_BUF + readOff + 4,
                         hashAt(m, BATCH_BUF + readOff + 4, keyLen), keyLen, 0)),
           root, i + 1, count, readOff + 4 + keyLen))
batchGet_atRecord(m, root, count) == batchGetLoop_atRecord(m, root, 0, count, 0)

\* batchGet: records [keyLen:4][key] read from BATCH_BUF, the i-th result
\* stored at BATCH_BUF + 4i
RECURSIVE batchGetLoop(_, _, _, _, _)
batchGetLoop(m, root, i, count, readOff) ==
  IF i >= count THEN m
  ELSE Let(load32(m, BATCH_BUF + readOff), LAMBDA keyLen :
         batchGetLoop(
           store32(m, BATCH_BUF + 4 * i,
                   getAt(m, root, BATCH_BUF + readOff + 4,
                         hashAt(m, BATCH_BUF + readOff + 4, keyLen), keyLen, 0)),
           root, i + 1, count, readOff + 4 + keyLen))
batchGet(m, root, count) == batchGetLoop(m, root, 0, count, 0)

RECURSIVE tryRemoveAt(_, _, _, _, _, _)
tryRemoveAt(st, node, keyPtr, keyHash, keyLen, shift) ==
  IF node = 0 THEN R(st, NOT_FOUND)
  ELSE
    LET m == st.mem
        bm == loadW(m, node + 4)
    IN IF bm = W0 THEN
         IF keycmpAt(m, keyPtr, leafKeyPtr(node), keyLen) THEN R(st, 0) ELSE R(st, NOT_FOUND)
       ELSE
         LET bit == Shl1(Slot(keyHash, shift)) IN
         IF And32(bm, bit) = W0 THEN R(st, NOT_FOUND)
         ELSE
           LET pos == pc(And32(bm, Dec32(bit)))
               cnt == pc(bm)
               child == load32(m, node + 8 + 4 * pos)
           IN Let(tryRemoveAt(st, child, keyPtr, keyHash, keyLen, shift + BITS), LAMBDA n :
                IF n.ret = NOT_FOUND THEN R(n.st, NOT_FOUND)
                ELSE IF n.ret = child THEN R(incref(n.st, node), node)
                ELSE IF n.ret = 0 THEN
                  IF cnt = 1 THEN R(n.st, 0)
                  ELSE
                    Let(allocNode(n.st, And32(bm, Not32(bit)), cnt - 1), LAMBDA a :
                      LET st1 == copyChildren(a.st, node, a.ret, 0, pos, 0)
                      IN R(copyChildren(st1, node, a.ret, pos + 1, cnt, -1), a.ret))
                ELSE
                  Let(allocNode(n.st, bm, cnt), LAMBDA a :
                    R(copyReplace(a.st, node, a.ret, 0, cnt, pos, n.ret), a.ret)))

\* batchBuf holds [keyLen:4][key]...; returns the new root and stores the
\* deleted count at BATCH_BUF - 4
RECURSIVE batchDeleteLoop(_, _, _, _, _, _)
batchDeleteLoop(st, root, i, count, offset, deleted) ==
  IF i >= count THEN R([st EXCEPT !.mem = store32(@, BATCH_BUF - 4, deleted)], root)
  ELSE
    LET m == st.mem
        keyLen == load32(m, BATCH_BUF + offset)
        keyPtr == BATCH_BUF + offset + 4
    IN Let(tryRemoveAt(st, root, keyPtr, hashAt(m, keyPtr, keyLen), keyLen, 0), LAMBDA n :
         IF n.ret # NOT_FOUND
         THEN batchDeleteLoop(n.st, n.ret, i + 1, count, offset + 4 + keyLen, deleted + 1)
         ELSE batchDeleteLoop(n.st, root, i + 1, count, offset + 4 + keyLen, deleted))
batchDelete(st, root, count) == batchDeleteLoop(st, root, 0, count, 0, 0)

\* ---------------------------------------------------------------- transients
\* canMutate without the owner test
canMutate_anyOwner(st, ptr) == ptr # 0 /\ st.transientId # 0

canMutate(st, ptr) == ptr # 0 /\ st.transientId # 0 /\ getOwner(st.mem, ptr) = st.transientId
own(st, ptr) ==
  IF ptr # 0 /\ st.transientId # 0
  THEN [st EXCEPT !.mem = setOwner(@, ptr, st.transientId)]
  ELSE st

RECURSIVE insertTransient(_, _, _, _)
insertTransient(st, node, leaf, shift) ==
  LET m == st.mem
      keyHash == loadW(m, leaf + 8)
      keyLen == load32(m, leaf + 12)
  IN IF node = 0 THEN R(own(st, leaf), leaf)
     ELSE
       LET bm == loadW(m, node + 4) IN
       IF bm = W0 THEN
         IF /\ loadW(m, node + 8) = keyHash
            /\ leafKeyLen(m, node) = keyLen
            /\ keycmp2(m, leafKeyPtr(node), leafKeyPtr(leaf), keyLen)
         THEN R(own(st, leaf), leaf)
         ELSE merge(st, node, loadW(m, node + 8), leaf, keyHash, shift)
       ELSE
         LET bit == Shl1(Slot(keyHash, shift))
             pos == pc(And32(bm, Dec32(bit)))
             cnt == pc(bm)
         IN IF And32(bm, bit) # W0 THEN
              Let(insertTransient(st, load32(m, node + 8 + 4 * pos), leaf, shift + BITS),
                  LAMBDA n :
                IF canMutate(n.st, node)
                THEN R([n.st EXCEPT !.mem = store32(@, node + 8 + 4 * pos, n.ret)], node)
                ELSE
                  Let(allocNode(n.st, bm, cnt), LAMBDA a :
                    R(copyReplace(own(a.st, a.ret), node, a.ret, 0, cnt, pos, n.ret), a.ret)))
            ELSE
              Let(allocNode(st, Or32(bm, bit), cnt + 1), LAMBDA a :
                LET st1 == copyChildren(own(a.st, a.ret), node, a.ret, 0, pos, 0)
                    st2 == own([st1 EXCEPT !.mem = store32(@, a.ret + 8 + 4 * pos, leaf)], leaf)
                IN R(copyChildren(st2, node, a.ret, pos, cnt, 1), a.ret))

RECURSIVE removeTransient(_, _, _, _, _, _)
removeTransient(st, node, keyPtr, keyHash, keyLen, shift) ==
  IF node = 0 THEN R(st, NOT_FOUND)
  ELSE
    LET m == st.mem
        bm == loadW(m, node + 4)
    IN IF bm = W0 THEN
         IF keycmpAt(m, keyPtr, leafKeyPtr(node), keyLen) THEN R(st, 0) ELSE R(st, NOT_FOUND)
       ELSE
         LET bit == Shl1(Slot(keyHash, shift)) IN
         IF And32(bm, bit) = W0 THEN R(st, NOT_FOUND)
         ELSE
           LET pos == pc(And32(bm, Dec32(bit)))
               cnt == pc(bm)
               child == load32(m, node + 8 + 4 * pos)
           IN Let(removeTransient(st, child, keyPtr, keyHash, keyLen, shift + BITS), LAMBDA n :
                IF n.ret = NOT_FOUND THEN R(n.st, NOT_FOUND)
                ELSE IF n.ret = 0 THEN
                  IF cnt = 1 THEN R(n.st, 0)
                  ELSE
                    Let(allocNode(n.st, And32(bm, Not32(bit)), cnt - 1), LAMBDA a :
                      LET st1 == copyChildren(own(a.st, a.ret), node, a.ret, 0, pos, 0)
                      IN R(copyChildren(st1, node, a.ret, pos + 1, cnt, -1), a.ret))
                ELSE IF n.ret = child THEN R(n.st, node)
                ELSE IF canMutate(n.st, node)
                  THEN R([n.st EXCEPT !.mem = store32(@, node + 8 + 4 * pos, n.ret)], node)
                ELSE
                  Let(allocNode(n.st, bm, cnt), LAMBDA a :
                    R(copyReplace(own(a.st, a.ret), node, a.ret, 0, cnt, pos, n.ret), a.ret)))

\* transientId = (transientId & 0xFF) + 1; if (!transientId) transientId = 1
nextTransientId(t) == LET n == (t % 256) + 1 IN IF n = 0 THEN 1 ELSE n

RECURSIVE batchInsertTransientLoop(_, _, _, _, _, _)
batchInsertTransientLoop(st, root, i, count, offset, inserted) ==
  IF i >= count
  THEN R([st EXCEPT !.transientId = 0, !.mem = store32(@, BATCH_BUF - 4, inserted)], root)
  ELSE
    LET m == st.mem
        keyLen == load32(m, BATCH_BUF + offset)
        valLen == load32(m, BATCH_BUF + offset + 4)
        keyPtr == BATCH_BUF + offset + 8
        keyHash == hashAt(m, keyPtr, keyLen)
        existed == getAt(m, root, keyPtr, keyHash, keyLen, 0)
    IN Let(allocLeafInternal(st, keyHash, keyLen, valLen), LAMBDA l :
       Let(insertTransient([l.st EXCEPT !.mem = memcopy(@, l.ret + 20, keyPtr, keyLen + valLen)],
                           root, l.ret, 0), LAMBDA n :
         batchInsertTransientLoop(n.st, n.ret, i + 1, count, offset + 8 + keyLen + valLen,
                                  IF existed = 0 THEN inserted + 1 ELSE inserted)))
batchInsertTransient(st, root, count) ==
  batchInsertTransientLoop([st EXCEPT !.transientId = nextTransientId(@)], root, 0, count, 0, 0)

RECURSIVE batchDeleteTransientLoop(_, _, _, _, _, _)
batchDeleteTransientLoop(st, root, i, count, offset, deleted) ==
  IF i >= count
  THEN R([st EXCEPT !.transientId = 0, !.mem = store32(@, BATCH_BUF - 4, deleted)], root)
  ELSE
    LET m == st.mem
        keyLen == load32(m, BATCH_BUF + offset)
        keyPtr == BATCH_BUF + offset + 4
    IN Let(removeTransient(st, root, keyPtr, hashAt(m, keyPtr, keyLen), keyLen, 0), LAMBDA n :
         IF n.ret # NOT_FOUND
         THEN batchDeleteTransientLoop(n.st, n.ret, i + 1, count, offset + 4 + keyLen, deleted + 1)
         ELSE batchDeleteTransientLoop(n.st, root, i + 1, count, offset + 4 + keyLen, deleted))
batchDeleteTransient(st, root, count) ==
  batchDeleteTransientLoop([st EXCEPT !.transientId = nextTransientId(@)], root, 0, count, 0, 0)

\* ============================================================ vector trie
\* (the engine's own BITS and MASK are 5 and 31 as above; its HEAP_START and
\* its allocator carry the prefix Vec/vec here)
WIDTH == 32
SCRATCH == 0
VEC_HEAP_START == 65600
NODE_SIZE == 132
LEAF_SIZE == 260

\* the engine's memory by cells: the u32 at a node's offset 0 and 4 + 4i, the
\* f64 at a leaf's offset 4 + 8i, the scratch words; a cell not kept is zero
vload(m, a) == IF a \in DOMAIN m THEN m[a] ELSE 0
vput(m, upd) ==
  LET val(a) == IF a \in DOMAIN upd THEN upd[a] ELSE m[a]
  IN [a \in {x \in DOMAIN m \cup DOMAIN upd : val(x) # 0} |-> val(a)]
vstore(m, a, v) == vput(m, a :> v)
\* memory.fill(ptr, 0, n)
vfill(m, ptr, n) == [a \in {x \in DOMAIN m : x < ptr \/ x >= ptr + n} |-> m[a]]
\* memory.copy(dst, src, n)
vcopy(m, dst, src, n) ==
  LET S == {x \in DOMAIN m : x >= src /\ x < src + n}
      kept == vfill(m, dst, n)
  IN vput(kept, [a \in {x - src + dst : x \in S} |-> m[a - dst + src]])

\* engine state threaded through the calls: [mem, heapEnd, freeNodes, freeLeaves]
vecAlloc(st, bytes) ==
  R([st EXCEPT !.heapEnd = @ + ((bytes + 7) \div 8) * 8], st.heapEnd)

vecAllocNode(st) ==
  LET a == IF st.freeNodes # 0
           THEN R([st EXCEPT !.freeNodes = vload(st.mem, st.freeNodes + 4)], st.freeNodes)
           ELSE vecAlloc(st, NODE_SIZE)
  IN R([a.st EXCEPT !.mem = vstore(vfill(@, a.ret, NODE_SIZE), a.ret, 1)], a.ret)

vecAllocLeaf(st) ==
  LET a == IF st.freeLeaves # 0
           THEN R([st EXCEPT !.freeLeaves = vload(st.mem, st.freeLeaves + 4)], st.freeLeaves)
           ELSE vecAlloc(st, LEAF_SIZE)
  IN R([a.st EXCEPT !.mem = vstore(vfill(@, a.ret, LEAF_SIZE), a.ret, 1)], a.ret)

vecFreeNode(st, ptr) ==
  [st EXCEPT !.mem = vstore(@, ptr + 4, st.freeNodes), !.freeNodes = ptr]
vecFreeLeaf(st, ptr) ==
  [st EXCEPT !.mem = vstore(@, ptr + 4, st.freeLeaves), !.freeLeaves = ptr]

vecIncref(m, ptr) == IF ptr # 0 THEN vstore(m, ptr, vload(m, ptr) + 1) ELSE m

\* decrefRec; the loop over the 32 children runs left to right, here by halves
RECURSIVE decrefRec(_, _, _), decrefRange(_, _, _, _, _)
decrefRange(st, ptr, lo, hi, depth) ==
  IF lo = hi THEN decrefRec(st, vload(st.mem, ptr + 4 + 4 * lo), depth)
  ELSE Let(decrefRange(st, ptr, lo, (lo + hi) \div 2, depth),
           LAMBDA s1 : decrefRange(s1, ptr, (lo + hi) \div 2 + 1, hi, depth))
decrefRec(st, ptr, depth) ==
  IF ptr = 0 THEN st
  ELSE
    \* u32: 0 - 1 wraps to 0xFFFFFFFF, written -1 here
    LET rc == vload(st.mem, ptr) - 1
        st1 == [st EXCEPT !.mem = vstore(@, ptr, rc)]
    IN IF rc # 0 THEN st1
       ELSE IF depth = 0 THEN vecFreeLeaf(st1, ptr)
       ELSE Let(decrefRange(st1, ptr, 0, WIDTH - 1, depth - 1), LAMBDA s2 : vecFreeNode(s2, ptr))
vecDecref(st, root, depth) == decrefRec(st, root, depth)

RECURSIVE vecGetFrom(_, _, _, _)
vecGetFrom(m, node, shift, idx) ==
  IF shift > 0 THEN
    LET child == vload(m, node + 4 + 4 * ((idx \div 2 ^ shift) % WIDTH))
    IN IF child = 0 THEN 0 ELSE vecGetFrom(m, child, shift - BITS, idx)
  ELSE vload(m, node + 4 + 8 * (idx % WIDTH))
vecGet(m, root, depth, idx) == IF root = 0 THEN 0 ELSE vecGetFrom(m, root, depth * BITS, idx)

\* the same with the leaf written where it is
RECURSIVE vecSetRec_inPlace(_, _, _, _, _)
vecSetRec_inPlace(st, node, shift, idx, val) ==
  IF shift = 0 THEN
    IF node # 0
    THEN R([st EXCEPT !.mem = vstore(@, node + 4 + 8 * (idx % WIDTH), val)], node)
    ELSE Let(vecAllocLeaf(st), LAMBDA a :
           R([a.st EXCEPT !.mem = vstore(@, a.ret + 4 + 8 * (idx % WIDTH), val)], a.ret))
  ELSE
    Let(vecAllocNode(st), LAMBDA a :
      LET childIdx == (idx \div 2 ^ shift) % WIDTH
          m0 == a.st.mem
          others == (0 .. (WIDTH - 1)) \ {childIdx}
          kid(i) == vload(m0, node + 4 + 4 * i)
          m1 == IF node = 0 THEN m0
                ELSE vput(vput(m0, [x \in {a.ret + 4 + 4 * i : i \in 0 .. (WIDTH - 1)} |->
                                      vload(m0, x - a.ret + node)]),
                          [c \in {kid(i) : i \in others} \ {0} |->
                             vload(m0, c) + Cardinality({i \in others : kid(i) = c})])
          oldChild == IF node # 0 THEN kid(childIdx) ELSE 0
      IN Let(vecSetRec_inPlace([a.st EXCEPT !.mem = m1], oldChild, shift - BITS, idx, val), LAMBDA c :
           R([c.st EXCEPT !.mem = vstore(@, a.ret + 4 + 4 * childIdx, c.ret)], a.ret)))

RECURSIVE vecSetRec(_, _, _, _, _)
vecSetRec(st, node, shift, idx, val) ==
  IF shift = 0 THEN
    Let(vecAllocLeaf(st), LAMBDA a :
      LET m1 == IF node # 0 THEN vcopy(a.st.mem, a.ret + 4, node + 4, LEAF_SIZE - 4)
                ELSE a.st.mem
      IN R([a.st EXCEPT !.mem = vstore(m1, a.ret + 4 + 8 * (idx % WIDTH), val)], a.ret))
  ELSE
    Let(vecAllocNode(st), LAMBDA a :
      LET childIdx == (idx \div 2 ^ shift) % WIDTH
          m0 == a.st.mem
          others == (0 .. (WIDTH - 1)) \ {childIdx}
          kid(i) == vload(m0, node + 4 + 4 * i)
          \* the loop: every child copied, every child but childIdx incref'd
          m1 == IF node = 0 THEN m0
                ELSE vput(vput(m0, [x \in {a.ret + 4 + 4 * i : i \in 0 .. (WIDTH - 1)} |->
                                      vload(m0, x - a.ret + node)]),
                          [c \in {kid(i) : i \in others} \ {0} |->
                             vload(m0, c) + Cardinality({i \in others : kid(i) = c})])
          oldChild == IF node # 0 THEN kid(childIdx) ELSE 0
      IN Let(vecSetRec([a.st EXCEPT !.mem = m1], oldChild, shift - BITS, idx, val), LAMBDA c :
           R([c.st EXCEPT !.mem = vstore(@, a.ret + 4 + 4 * childIdx, c.ret)], a.ret)))

vecSet(st, root, depth, idx, val) == vecSetRec(st, root, depth * BITS, idx, val)

\* the three words a call leaves at SCRATCH
scratchOut(m, root, depth, size) ==
  vput(m, (SCRATCH :> root) @@ ((SCRATCH + 4) :> depth) @@ ((SCRATCH + 8) :> size))

\* the same with a level added one element late
vecPush_late(st, root, depth, size, val) ==
  IF size >= WIDTH ^ (depth + 1) + 1 THEN
    Let(vecAllocNode(st), LAMBDA a :
      LET m1 == IF root # 0 THEN vecIncref(vstore(a.st.mem, a.ret + 4, root), root)
                ELSE a.st.mem
      IN Let(vecSetRec([a.st EXCEPT !.mem = m1], a.ret, (depth + 1) * BITS, size, val), LAMBDA r :
           [r.st EXCEPT !.mem = scratchOut(@, r.ret, depth + 1, size + 1)]))
  ELSE
    Let(vecSetRec(st, root, depth * BITS, size, val), LAMBDA r :
      [r.st EXCEPT !.mem = scratchOut(@, r.ret, depth, size + 1)])

vecPush(st, root, depth, size, val) ==
  \* capacity = WIDTH ^ (depth + 1)
  IF size >= WIDTH ^ (depth + 1) THEN
    Let(vecAllocNode(st), LAMBDA a :
      LET m1 == IF root # 0 THEN vecIncref(vstore(a.st.mem, a.ret + 4, root), root)
                ELSE a.st.mem
      IN Let(vecSetRec([a.st EXCEPT !.mem = m1], a.ret, (depth + 1) * BITS, size, val), LAMBDA r :
           [r.st EXCEPT !.mem = scratchOut(@, r.ret, depth + 1, size + 1)]))
  ELSE
    Let(vecSetRec(st, root, depth * BITS, size, val), LAMBDA r :
      [r.st EXCEPT !.mem = scratchOut(@, r.ret, depth, size + 1)])

\* vecPop giving up a level only when the size left is below 32^depth
vecPop_strict(st, root, depth, size) ==
  IF size = 0 THEN [st EXCEPT !.mem = scratchOut(@, 0, 0, 0)]
  ELSE IF depth > 0 /\ size - 1 > 0 /\ size - 1 < 2 ^ (depth * BITS) THEN
    LET newRoot == vload(st.mem, root + 4)
    IN [st EXCEPT !.mem = scratchOut(vecIncref(@, newRoot), newRoot, depth - 1, size - 1)]
  ELSE [st EXCEPT !.mem = scratchOut(vecIncref(@, root), root, depth, size - 1)]

vecPop(st, root, depth, size) ==
  IF size = 0 THEN [st EXCEPT !.mem = scratchOut(@, 0, 0, 0)]
  ELSE IF depth > 0 /\ size - 1 > 0 /\ size - 1 <= 2 ^ (depth * BITS) THEN
    LET newRoot == vload(st.mem, root + 4)
    IN [st EXCEPT !.mem = scratchOut(vecIncref(@, newRoot), newRoot, depth - 1, size - 1)]
  ELSE [st EXCEPT !.mem = scratchOut(vecIncref(@, root), root, depth, size - 1)]

\* ============================================================ linked list
\* (the engine behind SharedStack and SharedQueue; its HEAP_START, NODE_SIZE
\* and allocNode carry the prefix LL/ll here)
LL_HEAP_START == 65600
LL_NODE_SIZE == 16
\* what a wrapper holds where JavaScript has undefined
Undefined == -1

\* engine state threaded through the calls: [mem, heapEnd, freeList];
\* a node is the u32 next at offset 0 and the f64 value at offset 4
llAllocNode(e) ==
  IF e.freeList # 0
  THEN R([e EXCEPT !.freeList = vload(e.mem, e.freeList)], e.freeList)
  ELSE R([e EXCEPT !.heapEnd = @ + LL_NODE_SIZE], e.heapEnd)

push(e, head, val) ==
  LET a == llAllocNode(e)
  IN R([a.st EXCEPT !.mem = vput(@, (a.ret :> head) @@ ((a.ret + 4) :> val))], a.ret)

\* the same without following the link
pop_stay(m, head) == head

pop(m, head) == IF head # 0 THEN vload(m, head) ELSE 0

\* the same without linking the old tail to the new node
enqueue_noLink(e, tail, val) ==
  LET a == llAllocNode(e)
  IN R([a.st EXCEPT !.mem = vput(@, (a.ret :> 0) @@ ((a.ret + 4) :> val))], a.ret)

enqueue(e, tail, val) ==
  LET a == llAllocNode(e)
      m1 == vput(a.st.mem, (a.ret :> 0) @@ ((a.ret + 4) :> val))
  IN R([a.st EXCEPT !.mem = IF tail # 0 THEN vstore(m1, tail, a.ret) ELSE m1], a.ret)

dequeue(m, head) == IF head # 0 THEN vload(m, head) ELSE 0
peek(m, head) == IF head # 0 THEN vload(m, head + 4) ELSE 0

\* ---- blobs: strings and objects are kept as bytes on the same heap, a node
\* holding the u32 word ptr | (len << 20) at offset 4 (two 16-bit halves here)
BLOB_BUF == 64
\* vcopy and a write of bytes, in one step where no byte concerned is zero
vcopyRun(m, dst, src, n) ==
  IF \A a \in src .. (src + n - 1) : a \in DOMAIN m
  THEN [a \in dst .. (dst + n - 1) |-> m[a - dst + src]] @@ m
  ELSE vcopy(m, dst, src, n)
vputFew(m, upd) ==
  IF \A a \in DOMAIN upd : upd[a] = 0 => a \notin DOMAIN m
  THEN [a \in {x \in DOMAIN upd : upd[x] # 0} |-> upd[a]] @@ m
  ELSE vput(m, upd)
vwrite(m, dst, bytes) ==
  IF \A i \in DOMAIN bytes : bytes[i] # 0
  THEN [a \in dst .. (dst + Len(bytes) - 1) |-> bytes[a - dst + 1]] @@ m
  ELSE vput(m, [a \in dst .. (dst + Len(bytes) - 1) |-> bytes[a - dst + 1]])
pushBlob(e, head, blobPtr) ==
  LET a == llAllocNode(e)
  IN R([a.st EXCEPT !.mem = vputFew(@, (a.ret :> head) @@ ((a.ret + 4) :> blobPtr.lo)
                                         @@ ((a.ret + 6) :> blobPtr.hi))], a.ret)
peekBlob(m, head) == IF head # 0 THEN W(vload(m, head + 6), vload(m, head + 4)) ELSE W0
allocBlob(e, len) ==
  R([e EXCEPT !.heapEnd = @ + ((len + 7) \div 8) * 8,
              !.mem = vcopyRun(@, e.heapEnd, BLOB_BUF, len)], e.heapEnd)
setHeapEnd(e, v) == [e EXCEPT !.heapEnd = v]

\* ---- class SharedStack (valueType 'string'), a value being its encoded bytes
\* n as a u32, and n << 20 as JavaScript computes it (the low 32 bits)
U32(n) == W((n \div 65536) % 65536, n % 65536)
Shl20(n) == W((n * 16) % 65536, 0)
\* blobPtr | (bytes.length << 20)
Pack(blobPtr, len) == Or32(U32(blobPtr), Shl20(len))
\* packed & 0xFFFFF and packed >>> 20
PackedPtr(packed) == (packed.hi % 16) * 65536 + packed.lo
PackedLen(packed) == packed.hi \div 16
\* decoder.decode(mem.buf.subarray(ptr, ptr + len))
DecodeBlob(m, packed) ==
  [i \in 1 .. PackedLen(packed) |-> vload(m, PackedPtr(packed) + i - 1)]
SharedStackPushStr(e, s, bytes) ==
  Let(allocBlob([e EXCEPT !.mem = vwrite(@, BLOB_BUF, bytes)], Len(bytes)),
      LAMBDA b :
        Let(pushBlob(b.st, s.head, Pack(b.ret, Len(bytes))), LAMBDA r :
          [st |-> r.st, ret |-> [head |-> r.ret, size |-> s.size + 1, top |-> bytes],
           blob |-> [ptr |-> b.ret, len |-> Len(bytes)]]))
SharedStackPopStr(e, s) ==
  IF s.size = 0 THEN s
  ELSE LET newHead == pop(e.mem, s.head)
       IN [head |-> newHead, size |-> s.size - 1,
           top |-> IF s.size > 1 /\ newHead # 0
                   THEN DecodeBlob(e.mem, peekBlob(e.mem, newHead)) ELSE Undefined]

\* ---- class SharedStack (valueType 'number'): [head, size, top]
NewSharedStack == [head |-> 0, size |-> 0, top |-> Undefined]
SharedStackPush(e, s, value) ==
  LET r == push(e, s.head, value)
  IN R(r.st, [head |-> r.ret, size |-> s.size + 1, top |-> value])
SharedStackPop(e, s) ==
  IF s.size = 0 THEN s
  ELSE LET newHead == pop(e.mem, s.head)
       IN [head |-> newHead, size |-> s.size - 1,
           top |-> IF s.size > 1 /\ newHead # 0 THEN peek(e.mem, newHead) ELSE Undefined]
SharedStackPeek(s) == s.top

\* ---- class SharedQueue (valueType 'number'): [head, tail, size, front]
NewSharedQueue == [head |-> 0, tail |-> 0, size |-> 0, front |-> Undefined]
SharedQueueEnqueue(e, q, value) ==
  LET r == enqueue(e, q.tail, value)
  IN R(r.st, [head |-> IF q.head # 0 THEN q.head ELSE r.ret, tail |-> r.ret,
              size |-> q.size + 1, front |-> IF q.size = 0 THEN value ELSE q.front])
SharedQueueDequeue(e, q) ==
  IF q.size = 0 THEN q
  ELSE LET newHead == dequeue(e.mem, q.head)
       IN [head |-> newHead, tail |-> IF newHead # 0 THEN q.tail ELSE 0, size |-> q.size - 1,
           front |-> IF q.size > 1 /\ newHead # 0 THEN peek(e.mem, newHead) ELSE Undefined]
SharedQueuePeek(q) == q.front

\* ---- class Vector over the vector trie (valueType 'number'): [root, depth, size]
NewVector == [root |-> 0, depth |-> 0, size |-> 0]
VectorPush(st, v, value) ==
  Let(vecPush(st, v.root, v.depth, v.size, value), LAMBDA st1 :
    R(st1, [root |-> vload(st1.mem, SCRATCH), depth |-> vload(st1.mem, SCRATCH + 4),
            size |-> vload(st1.mem, SCRATCH + 8)]))
VectorPop(st, v) ==
  Let(vecPop(st, v.root, v.depth, v.size), LAMBDA st1 :
    R(st1, [root |-> vload(st1.mem, SCRATCH), depth |-> vload(st1.mem, SCRATCH + 4),
            size |-> vload(st1.mem, SCRATCH + 8)]))
VectorGet(m, v, i) ==
  IF i >= 0 /\ i < v.size THEN vecGet(m, v.root, v.depth, i) ELSE Undefined

\* ---- class HAMTStack: [vec]
NewHAMTStack == [vec |-> NewVector]
HAMTStackPush(st, s, value) ==
  LET r == VectorPush(st, s.vec, value) IN R(r.st, [vec |-> r.ret])
HAMTStackPop(st, s) ==
  IF s.vec.size = 0 THEN R(st, s)
  ELSE LET r == VectorPop(st, s.vec) IN R(r.st, [vec |-> r.ret])
HAMTStackPeek(m, s) ==
  IF s.vec.size > 0 THEN VectorGet(m, s.vec, s.vec.size - 1) ELSE Undefined
HAMTStackSize(s) == s.vec.size

\* ---- class HAMTQueue: [vec, head]
NewHAMTQueue == [vec |-> NewVector, head |-> 0]
HAMTQueueSize(q) == q.vec.size - q.head
HAMTQueueEnqueue(st, q, value) ==
  LET r == VectorPush(st, q.vec, value) IN R(r.st, [vec |-> r.ret, head |-> q.head])
HAMTQueueDequeue(q) ==
  IF HAMTQueueSize(q) = 0 THEN q ELSE [vec |-> q.vec, head |-> q.head + 1]
HAMTQueuePeek(m, q) ==
  IF HAMTQueueSize(q) > 0 THEN VectorGet(m, q.vec, q.head) ELSE Undefined

\* ============================================================ sorted tree
\* (the persistent red-black tree behind SharedSortedMap; its BLOB_BUF,
\* HEAP_START, NODE_SIZE, alloc and allocBlob carry the prefix RB/rb here)
RB_BLOB_BUF == 1024
RB_HEAP_START == 65600
RB_NODE_SIZE == 20
RED == 0
BLACK == 1

\* engine state threaded through the calls: [mem, heapEnd]; the memory by
\* cells: the bytes of KEY_BUF and of the blobs, a node's colour at offset 0
\* and its u32 words at offsets 1, 5, 9 and 13, the words of BLOB_BUF;
\* a u32 read inside KEY_BUF is put together from its four bytes
rload32(m, a) ==
  IF a < RB_BLOB_BUF
  THEN vload(m, a) + 256 * vload(m, a + 1) + 65536 * vload(m, a + 2)
       + 16777216 * vload(m, a + 3)
  ELSE vload(m, a)

rbAlloc(st, size) == R([st EXCEPT !.heapEnd = @ + size], st.heapEnd)
rbAllocBlob(st, len) ==
  R([st EXCEPT !.heapEnd = @ + len, !.mem = vcopy(@, st.heapEnd, RB_BLOB_BUF, len)],
    st.heapEnd)
allocKeyBlob(st, len) ==
  R([st EXCEPT !.heapEnd = @ + len, !.mem = vcopy(@, st.heapEnd, KEY_BUF, len)],
    st.heapEnd)

isRed(m, n) == n # 0 /\ vload(m, n) = RED
getLeft(m, n) == IF n # 0 THEN rload32(m, n + 1) ELSE 0
getRight(m, n) == IF n # 0 THEN rload32(m, n + 5) ELSE 0
getKeyPacked(m, n) == IF n # 0 THEN rload32(m, n + 9) ELSE 0
getValPacked(m, n) == IF n # 0 THEN rload32(m, n + 13) ELSE 0

newNode(st, color, left, right, keyPacked, valPacked) ==
  R([st EXCEPT !.heapEnd = @ + RB_NODE_SIZE,
               !.mem = vput(@, (st.heapEnd :> color) @@ ((st.heapEnd + 1) :> left)
                               @@ ((st.heapEnd + 5) :> right)
                               @@ ((st.heapEnd + 9) :> keyPacked)
                               @@ ((st.heapEnd + 13) :> valPacked))],
    st.heapEnd)

copyWith(st, n, color, left, right) ==
  newNode(st, color, left, right, rload32(st.mem, n + 9), rload32(st.mem, n + 13))
setRed(st, n, left, right) == copyWith(st, n, RED, left, right)
setBlack(st, n, left, right) == copyWith(st, n, BLACK, left, right)

\* ptr | (len << 20), packed & 0xFFFFF and packed >>> 20 (the heap stays
\* below 2^20 here, where | adds)
rbPack(ptr, len) == ptr + len * 1048576
rbPtr(packed) == packed % 1048576
rbLen(packed) == packed \div 1048576

\* memory.compare over the shorter length, then the lengths
compareKeyBlob(m, len1, ptr2, len2) ==
  LET minLen == IF len1 < len2 THEN len1 ELSE len2
      D == {i \in 0 .. (minLen - 1) : vload(m, KEY_BUF + i) # vload(m, ptr2 + i)}
  IN IF D # {}
     THEN LET i == CHOOSE x \in D : \A y \in D : x <= y
          IN IF vload(m, KEY_BUF + i) < vload(m, ptr2 + i) THEN -1 ELSE 1
     ELSE IF len1 < len2 THEN -1 ELSE IF len1 > len2 THEN 1 ELSE 0

\* balance; the arguments of a call are evaluated left to right, so the inner
\* nodes are allocated before the node that holds them
balance(st, color, left, n, right) ==
  Let(<<rload32(st.mem, n + 9), rload32(st.mem, n + 13), st.mem>>, LAMBDA kv :
    IF color = BLACK /\ isRed(kv[3], left) /\ isRed(kv[3], getLeft(kv[3], left))
    THEN Let(getLeft(kv[3], left), LAMBDA ll :
           Let(setBlack(st, ll, getLeft(kv[3], ll), getRight(kv[3], ll)), LAMBDA a :
             Let(newNode(a.st, BLACK, getRight(kv[3], left), right, kv[1], kv[2]), LAMBDA b :
               newNode(b.st, RED, a.ret, b.ret,
                       rload32(kv[3], left + 9), rload32(kv[3], left + 13)))))
    ELSE IF color = BLACK /\ isRed(kv[3], left) /\ isRed(kv[3], getRight(kv[3], left))
    THEN Let(getRight(kv[3], left), LAMBDA lr :
           Let(setBlack(st, left, getLeft(kv[3], left), getLeft(kv[3], lr)), LAMBDA a :
             Let(newNode(a.st, BLACK, getRight(kv[3], lr), right, kv[1], kv[2]), LAMBDA b :
               newNode(b.st, RED, a.ret, b.ret,
                       rload32(kv[3], lr + 9), rload32(kv[3], lr + 13)))))
    ELSE IF color = BLACK /\ isRed(kv[3], right) /\ isRed(kv[3], getLeft(kv[3], right))
    THEN Let(getLeft(kv[3], right), LAMBDA rl :
           Let(newNode(st, BLACK, left, getLeft(kv[3], rl), kv[1], kv[2]), LAMBDA a :
             Let(setBlack(a.st, right, getRight(kv[3], rl), getRight(kv[3], right)), LAMBDA b :
               newNode(b.st, RED, a.ret, b.ret,
                       rload32(kv[3], rl + 9), rload32(kv[3], rl + 13)))))
    ELSE IF color = BLACK /\ isRed(kv[3], right) /\ isRed(kv[3], getRight(kv[3], right))
    THEN Let(getRight(kv[3], right), LAMBDA rr :
           Let(newNode(st, BLACK, left, getLeft(kv[3], right), kv[1], kv[2]), LAMBDA a :
             Let(setBlack(a.st, rr, getLeft(kv[3], rr), getRight(kv[3], rr)), LAMBDA b :
               newNode(b.st, RED, a.ret, b.ret,
                       rload32(kv[3], right + 9), rload32(kv[3], right + 13)))))
    ELSE newNode(st, color, left, right, kv[1], kv[2]))

\* insertHelp; BLOB_BUF + 8 receives whether the key existed
RECURSIVE insertHelp(_, _, _, _, _)
insertHelp(st, n, keyLen, keyPacked, valPacked) ==
  IF n = 0
  THEN newNode([st EXCEPT !.mem = vstore(@, RB_BLOB_BUF + 8, 0)], RED, 0, 0,
               keyPacked, valPacked)
  ELSE
    Let(<<getKeyPacked(st.mem, n), vload(st.mem, n), st.mem>>, LAMBDA kc :
      Let(compareKeyBlob(kc[3], keyLen, rbPtr(kc[1]), rbLen(kc[1])), LAMBDA cmp :
        IF cmp = 0
        THEN newNode([st EXCEPT !.mem = vstore(@, RB_BLOB_BUF + 8, 1)], kc[2],
                     getLeft(kc[3], n), getRight(kc[3], n), kc[1], valPacked)
        ELSE IF cmp < 0
        THEN Let(insertHelp(st, getLeft(kc[3], n), keyLen, keyPacked, valPacked), LAMBDA l :
               balance(l.st, kc[2], l.ret, n, getRight(kc[3], n)))
        ELSE Let(insertHelp(st, getRight(kc[3], n), keyLen, keyPacked, valPacked), LAMBDA r :
               balance(r.st, kc[2], getLeft(kc[3], n), n, r.ret))))

\* insertBlob: the key is in KEY_BUF; the new root is stored at BLOB_BUF
insertBlob(st, root, keyLen, valPacked) ==
  Let(allocKeyBlob(st, keyLen), LAMBDA k :
    Let(insertHelp(k.st, root, keyLen, rbPack(k.ret, keyLen), valPacked), LAMBDA nr :
      Let(IF isRed(nr.st.mem, nr.ret)
          THEN setBlack(nr.st, nr.ret, getLeft(nr.st.mem, nr.ret), getRight(nr.st.mem, nr.ret))
          ELSE nr,
          LAMBDA res : R([res.st EXCEPT !.mem = vstore(@, RB_BLOB_BUF, res.ret)], res.ret))))

RECURSIVE findBlob(_, _, _)
findBlob(m, curr, keyLen) ==
  IF curr = 0 THEN 0
  ELSE Let(getKeyPacked(m, curr), LAMBDA kp :
         Let(compareKeyBlob(m, keyLen, rbPtr(kp), rbLen(kp)), LAMBDA cmp :
           IF cmp = 0 THEN curr
           ELSE findBlob(m, IF cmp < 0 THEN getLeft(m, curr) ELSE getRight(m, curr), keyLen)))

RECURSIVE getMin(_, _)
getMin(m, n) ==
  IF n = 0 THEN 0 ELSE IF getLeft(m, n) # 0 THEN getMin(m, getLeft(m, n)) ELSE n

\* the iterator [mem, iterTop], its stack the words at BLOB_BUF + 64;
\* iterPush is the loop that stacks n and its left spine
RECURSIVE iterPush(_, _)
iterPush(it, n) ==
  IF n = 0 THEN it
  ELSE iterPush([mem |-> vstore(it.mem, RB_BLOB_BUF + 64 + 4 * (it.iterTop + 1), n),
                 iterTop |-> it.iterTop + 1],
                getLeft(it.mem, n))
iterTopNode(it) ==
  R(it, IF it.iterTop >= 0 THEN vload(it.mem, RB_BLOB_BUF + 64 + 4 * it.iterTop) ELSE 0)
iterStart(m, root) == iterTopNode(iterPush([mem |-> m, iterTop |-> -1], root))
iterNext(it) ==
  IF it.iterTop < 0 THEN R(it, 0)
  ELSE iterTopNode(iterPush([it EXCEPT !.iterTop = @ - 1],
                            getRight(it.mem, vload(it.mem, RB_BLOB_BUF + 64 + 4 * it.iterTop))))

RECURSIVE balanceLeft(_, _, _, _)
balanceLeft(st, n, left, right) ==
  Let(<<rload32(st.mem, n + 9), rload32(st.mem, n + 13), st.mem>>, LAMBDA kv :
    IF isRed(kv[3], left)
    THEN Let(setBlack(st, left, getLeft(kv[3], left), getRight(kv[3], left)), LAMBDA a :
           newNode(a.st, RED, a.ret, right, kv[1], kv[2]))
    ELSE IF right = 0 THEN newNode(st, BLACK, left, 0, kv[1], kv[2])
    ELSE IF isRed(kv[3], right)
    THEN Let(getLeft(kv[3], right), LAMBDA rl :
           Let(balanceLeft(st, n, left, getLeft(kv[3], rl)), LAMBDA a :
             Let(getRight(kv[3], right), LAMBDA rr :
               Let(setRed(a.st, rr, getLeft(kv[3], rr), getRight(kv[3], rr)), LAMBDA b :
                 Let(balance(b.st, BLACK, getRight(kv[3], rl), right, b.ret), LAMBDA c :
                   newNode(c.st, BLACK, a.ret, c.ret,
                           rload32(kv[3], rl + 9), rload32(kv[3], rl + 13)))))))
    ELSE Let(setRed(st, right, getLeft(kv[3], right), getRight(kv[3], right)), LAMBDA a :
           balance(a.st, BLACK, left, n, a.ret)))

RECURSIVE balanceRight(_, _, _, _)
balanceRight(st, n, left, right) ==
  Let(<<rload32(st.mem, n + 9), rload32(st.mem, n + 13), st.mem>>, LAMBDA kv :
    IF isRed(kv[3], right)
    THEN Let(setBlack(st, right, getLeft(kv[3], right), getRight(kv[3], right)), LAMBDA a :
           newNode(a.st, RED, left, a.ret, kv[1], kv[2]))
    ELSE IF left = 0 THEN newNode(st, BLACK, 0, right, kv[1], kv[2])
    ELSE IF isRed(kv[3], left)
    THEN Let(getRight(kv[3], left), LAMBDA lr :
           Let(getLeft(kv[3], left), LAMBDA ll :
             Let(setRed(st, ll, getLeft(kv[3], ll), getRight(kv[3], ll)), LAMBDA a :
               Let(balance(a.st, BLACK, a.ret, left, getLeft(kv[3], lr)), LAMBDA b :
                 Let(balanceRight(b.st, n, getRight(kv[3], lr), right), LAMBDA c :
                   newNode(c.st, BLACK, b.ret, c.ret,
                           rload32(kv[3], lr + 9), rload32(kv[3], lr + 13)))))))
    ELSE Let(setRed(st, left, getLeft(kv[3], left), getRight(kv[3], left)), LAMBDA a :
           balance(a.st, BLACK, a.ret, n, right)))

RECURSIVE delMin(_, _)
delMin(st, n) ==
  Let(st.mem, LAMBDA m :
    IF getLeft(m, n) = 0 THEN R(st, getRight(m, n))
    ELSE Let(delMin(st, getLeft(m, n)), LAMBDA d :
           IF ~isRed(m, getLeft(m, n)) /\ ~isRed(m, getLeft(m, getLeft(m, n)))
           THEN balanceLeft(d.st, n, d.ret, getRight(m, n))
           ELSE newNode(d.st, vload(m, n), d.ret, getRight(m, n),
                        rload32(m, n + 9), rload32(m, n + 13))))

RECURSIVE deleteHelp(_, _, _)
deleteHelp(st, n, keyLen) ==
  IF n = 0 THEN R(st, 0)
  ELSE
    Let(<<getKeyPacked(st.mem, n), vload(st.mem, n), st.mem>>, LAMBDA kc :
      Let(compareKeyBlob(kc[3], keyLen, rbPtr(kc[1]), rbLen(kc[1])), LAMBDA cmp :
        IF cmp < 0
        THEN IF getLeft(kc[3], n) = 0 THEN R(st, n)
             ELSE Let(deleteHelp(st, getLeft(kc[3], n), keyLen), LAMBDA d :
                    IF ~isRed(kc[3], getLeft(kc[3], n))
                       /\ ~isRed(kc[3], getLeft(kc[3], getLeft(kc[3], n)))
                    THEN balanceLeft(d.st, n, d.ret, getRight(kc[3], n))
                    ELSE newNode(d.st, kc[2], d.ret, getRight(kc[3], n), kc[1],
                                 rload32(kc[3], n + 13)))
        ELSE IF cmp > 0
        THEN IF getRight(kc[3], n) = 0 THEN R(st, n)
             ELSE Let(deleteHelp(st, getRight(kc[3], n), keyLen), LAMBDA d :
                    IF ~isRed(kc[3], getRight(kc[3], n))
                       /\ ~isRed(kc[3], getLeft(kc[3], getRight(kc[3], n)))
                    THEN balanceRight(d.st, n, getLeft(kc[3], n), d.ret)
                    ELSE newNode(d.st, kc[2], getLeft(kc[3], n), d.ret, kc[1],
                                 rload32(kc[3], n + 13)))
        ELSE IF getLeft(kc[3], n) = 0 THEN R(st, getRight(kc[3], n))
        ELSE IF getRight(kc[3], n) = 0 THEN R(st, getLeft(kc[3], n))
        ELSE Let(getMin(kc[3], getRight(kc[3], n)), LAMBDA minRight :
               Let(delMin(st, getRight(kc[3], n)), LAMBDA newRight :
                 Let(newNode(newRight.st, kc[2], getLeft(kc[3], n), newRight.ret,
                             rload32(kc[3], minRight + 9), rload32(kc[3], minRight + 13)),
                     LAMBDA x :
                       balance(x.st, kc[2], getLeft(kc[3], n), x.ret, newRight.ret))))))

deleteBlob(st, root, keyLen) ==
  IF root = 0 THEN R(st, 0)
  ELSE Let(deleteHelp(st, root, keyLen), LAMBDA result :
         IF result.ret = 0 THEN R(result.st, 0)
         ELSE IF isRed(result.st.mem, result.ret)
         THEN setBlack(result.st, result.ret, getLeft(result.st.mem, result.ret),
                       getRight(result.st.mem, result.ret))
         ELSE result)

\* ---- class SharedSortedMap (valueType 'boolean', no comparator): [root, size];
\* a key is its ASCII bytes, a value the byte 1 or 0 of its blob
NewSharedSortedMap == [root |-> 0, size |-> 0]
\* encodeKeyFast: the bytes of the key written at keyBufPtr
encodeKeyFast(m, key) == vwrite(m, KEY_BUF, key)
\* encodeValueFast of a boolean: one byte at blobBufPtr, then allocBlob(1)
encodeValueFast(e, value) ==
  rbAllocBlob([e EXCEPT !.mem = vstore(@, RB_BLOB_BUF, IF value # 0 THEN 1 ELSE 0)], 1)
\* decodeValue of a boolean, as 1 or 0
decodeValue(m, packed) == IF vload(m, rbPtr(packed)) # 0 THEN 1 ELSE 0
\* decodeKeyFast
decodeKeyFast(m, packed) == [i \in 1 .. rbLen(packed) |-> vload(m, rbPtr(packed) + i - 1)]

SharedSortedMapSet(e, s, key, value) ==
  Let(encodeValueFast([e EXCEPT !.mem = encodeKeyFast(@, key)], value), LAMBDA b :
    Let(insertBlob(b.st, s.root, Len(key), rbPack(b.ret, 1)), LAMBDA r :
      R(r.st, [root |-> vload(r.st.mem, RB_BLOB_BUF),
               size |-> IF vload(r.st.mem, RB_BLOB_BUF + 8) # 0 THEN s.size ELSE s.size + 1])))

SharedSortedMapGet(m, s, key) ==
  IF s.root = 0 THEN Undefined
  ELSE Let(encodeKeyFast(m, key), LAMBDA m1 :
         Let(findBlob(m1, s.root, Len(key)), LAMBDA node :
           IF node = 0 THEN Undefined ELSE decodeValue(m1, getValPacked(m1, node))))

SharedSortedMapHas(m, s, key) ==
  IF s.root = 0 THEN FALSE ELSE findBlob(encodeKeyFast(m, key), s.root, Len(key)) # 0

SharedSortedMapDelete(e, s, key) ==
  IF s.root = 0 THEN R(e, s)
  ELSE Let([e EXCEPT !.mem = encodeKeyFast(@, key)], LAMBDA e1 :
         IF findBlob(e1.mem, s.root, Len(key)) = 0 THEN R(e1, s)
         ELSE Let(deleteBlob(e1, s.root, Len(key)), LAMBDA r :
                R(r.st, [root |-> r.ret, size |-> s.size - 1])))

\* entriesNatural: iterStart, then iterNext until it returns 0
RECURSIVE entriesLoop(_, _)
entriesLoop(r, out) ==
  IF r.ret = 0 THEN out
  ELSE entriesLoop(iterNext(r.st),
                   Append(out, <<decodeKeyFast(r.st.mem, getKeyPacked(r.st.mem, r.ret)),
                                 decodeValue(r.st.mem, getValPacked(r.st.mem, r.ret))>>))
entriesNatural(m, s) == IF s.root = 0 THEN <<>> ELSE entriesLoop(iterStart(m, s.root), <<>>)

\* ------------------------------------------------------------- state machine
Readers == {1, 2}
IdleReader == [pc |-> "idle", root |-> 0, key |-> <<>>, ret |-> 0, val |-> <<>>]
VARIABLES mem, heapEnd, freeList, usedBytes, transientId,
          handles, info, ops, last
\* the blocks a direct caller of alloc holds: offset -> bytes asked for
VARIABLES live
\* the readers attached to the buffer: reader -> [pc, root, key, ret, val]
VARIABLES readers
\* the worker's private memory: [taken, mem, root, expect, got]
VARIABLES copy
\* the vector engine [mem, heapEnd, freeNodes, freeLeaves] and the vectors its
\* caller holds: slot -> [root, depth, size, ref], ref the values put in
VARIABLES vec, vhs

gA == <<live>>
gR == <<readers>>
gK == <<copy>>
\* the SharedStack and SharedQueue modules, each [eng, hs]: its engine
\* [mem, heapEnd, freeList] and the objects its caller holds, and the HAMTStack
\* and HAMTQueue objects held; an entry is [obj, ref, used, grown], ref the
\* values it should hold, oldest first
VARIABLES stk, que, hstk, hque

\* the SharedSet objects held over the map engine: an entry is [obj, ref], ref
\* the values it should contain
VARIABLES sets
\* the SharedStack module used with strings, [eng, hs]: an entry is [obj, ref],
\* ref the [ptr, len] of the blob of each string it should hold, oldest first
VARIABLES strs

\* the iteration a caller has going: [on, root, stack, got, k, ret, calls], stack
\* the words at STACK_BASE, got the leaf pointers decoded so far
VARIABLES iter

\* the SharedSortedMap module [eng, hs]: its engine [mem, heapEnd] and the maps
\* its caller has made, oldest first: an entry is [obj, ref], ref the value
\* each key should have
VARIABLES srt

gV == <<vec, vhs>>
gS == <<stk, que, hstk, hque>>
gT == <<sets>>
gB == <<strs>>
gI == <<iter>>
gM == <<srt>>
\* what the callers of the map leave alone
aux == <<gA, gR, gK, gV, gS, gT, gB, gI, gM>>
\* what the callers of alloc, the readers, the worker, the callers of the
\* vector leave alone
auxA == <<gR, gK, gV, gS, gT, gB, gI, gM>>
auxR == <<gA, gK, gV, gS, gT, gB, gI, gM>>
auxK == <<gA, gR, gV, gS, gT, gB, gI, gM>>
hamtVars == <<mem, heapEnd, freeList, usedBytes, transientId, handles, info>>
auxV == <<hamtVars, gA, gR, gK, gS, gT, gB, gI, gM>>
\* what the callers of the stacks and queues leave alone, the vector engine aside
auxS == <<hamtVars, gA, gR, gK, vhs, gT, gB, gI, gM>>
\* what the callers of the sets leave alone, the map engine aside
auxT == <<handles, info, gA, gR, gK, gV, gS, gB, gI, gM>>
\* what the callers of the string stack leave alone
auxB == <<hamtVars, gA, gR, gK, gV, gS, gT, gI, gM>>
\* what the caller of the iterator leaves alone
auxI == <<heapEnd, freeList, usedBytes, transientId, handles, info, gA, gR, gK, gV, gS, gT, gB, gM>>
\* what the caller of the sorted map leaves alone
auxM == <<hamtVars, gA, gR, gK, gV, gS, gT, gB, gI>>
vars == <<mem, heapEnd, freeList, usedBytes, transientId, handles, info, ops, last, aux>>

\* keys as the bytes the caller encodes into KEY_BUF
KeyA == <<97>>
KeyAH == <<97, 104>>
KeyB == <<98>>
\* U+01A2 U+0100 and U+06B3 U+0639 in UTF-8: both hash to 0x4F1607CD
KeyCollide1 == <<198, 162, 196, 128>>
KeyCollide2 == <<218, 179, 216, 185>>
KeysCore == {KeyA, KeyAH, KeyB}
KeysCollide == {KeyCollide1, KeyCollide2, KeyB}
KeysBatch == {KeyA, KeyB}
KeyC == <<99>>
KeysSorted == {KeyA, KeyAH, KeyB, KeyC}
ValuesSorted == {0, 1}
AllKeys == KeysCore \cup KeysCollide
\* every value is one byte long; the byte written by the n-th operation
ValLen == 1
ValOf(n) == n + 1

NoParent == -2
Engine == [mem |-> mem, heapEnd |-> heapEnd, freeList |-> freeList,
           usedBytes |-> usedBytes, transientId |-> transientId]
SetEngine(st) ==
  /\ mem' = st.mem
  /\ heapEnd' = st.heapEnd
  /\ freeList' = st.freeList
  /\ usedBytes' = st.usedBytes
  /\ transientId' = st.transientId

\* what the caller knows about the empty root
EmptyInfo == [parent |-> NoParent, key |-> <<>>, op |-> "empty", count |-> 0,
              pure |-> TRUE, fresh |-> FALSE, data |-> <<>>]
InfoOf(r) == IF r = 0 THEN EmptyInfo ELSE info[r]
\* f with key k bound to v
Bind(f, k, v) == [x \in DOMAIN f \cup {k} |-> IF x = k THEN v ELSE f[x]]

\* a lookup as a caller performs it: encode the key into KEY_BUF, call get
Lookup(m, root, k) == get(writeBytes(m, KEY_BUF, k), root, Len(k))
LeafKey(m, leaf) == readBytes(m, leafKeyPtr(leaf), leafKeyLen(m, leaf))
LeafVal(m, leaf) == readBytes(m, leafValPtr(m, leaf), leafValLen(m, leaf))
\* the value bytes a lookup yields, <<-1>> standing for "not found"
Absent == <<-1>>
ValueAt(m, root, k) ==
  LET leaf == Lookup(m, root, k) IN IF leaf = 0 THEN Absent ELSE LeafVal(m, leaf)

IdleIter == [on |-> FALSE, root |-> 0, stack |-> <<>>, got |-> <<>>, k |-> 0, ret |-> 0, calls |-> 0]

Init ==
  /\ mem = InitMem
  /\ heapEnd = HEAP_START
  /\ freeList = 0
  /\ usedBytes = 0
  /\ transientId = 0
  /\ handles = {}
  /\ info = <<>>
  /\ ops = 0
  /\ live = <<>>
  /\ readers = [i \in Readers |-> IdleReader]
  /\ vec = [mem |-> <<>>, heapEnd |-> VEC_HEAP_START, freeNodes |-> 0, freeLeaves |-> 0]
  /\ vhs = <<>>
  /\ stk = [eng |-> [mem |-> <<>>, heapEnd |-> LL_HEAP_START, freeList |-> 0], hs |-> <<>>]
  /\ que = [eng |-> [mem |-> <<>>, heapEnd |-> LL_HEAP_START, freeList |-> 0], hs |-> <<>>]
  /\ hstk = <<>>
  /\ hque = <<>>
  /\ sets = <<>>
  /\ strs = [eng |-> [mem |-> <<>>, heapEnd |-> LL_HEAP_START, freeList |-> 0], hs |-> <<>>]
  /\ iter = IdleIter
  /\ srt = [eng |-> [mem |-> <<>>, heapEnd |-> RB_HEAP_START], hs |-> <<>>]
  /\ copy = [taken |-> FALSE, mem |-> <<>>, root |-> 0, expect |-> <<>>, got |-> <<>>]
  /\ last = [op |-> "init", root |-> 0, key |-> <<>>, ret |-> 0, existed |-> 0,
             found |-> FALSE, count |-> 0]

\* h = h.set(k, v): key into KEY_BUF, insertKey, value written at valPtr;
\* the new root gets a handle of its own
InsertKeyOp(r, k, maxOps) ==
  /\ ops < maxOps
  /\ Cardinality(handles) < MaxHandles
  /\ \E st1 \in {insertKey([Engine EXCEPT !.mem = writeBytes(@, KEY_BUF, k)], r, Len(k), ValLen)} :
       LET newRoot == load32(st1.mem, BATCH_BUF)
           existed == load32(st1.mem, BATCH_BUF + 4)
           valPtr == load32(st1.mem, BATCH_BUF + 8)
           v == ValOf(ops)
           old == InfoOf(r)
           cnt == IF existed = 0 THEN old.count + 1 ELSE old.count
       IN /\ SetEngine([st1 EXCEPT !.mem = store8(@, valPtr, v)])
          /\ handles' = handles \cup {newRoot}
          /\ info' = Bind(info, newRoot,
                          [parent |-> r, key |-> k, op |-> "insertKey", count |-> cnt,
                           pure |-> old.pure /\ k \notin DOMAIN old.data,
                           fresh |-> Lookup(mem, r, k) = 0,
                           data |-> Bind(old.data, k, <<v>>)])
          /\ last' = [op |-> "insertKey", root |-> r, key |-> k, ret |-> newRoot,
                      existed |-> existed, found |-> Lookup(mem, r, k) # 0, count |-> cnt]
  /\ ops' = ops + 1
  /\ UNCHANGED aux

\* h.delete(k): key into KEY_BUF, tryRemove; a new non-empty root gets a
\* handle of its own, the sentinel leaves everything as it is
TryRemoveOp(r, k, maxOps) ==
  /\ ops < maxOps
  /\ Cardinality(handles) < MaxHandles
  /\ \E res \in {tryRemove([Engine EXCEPT !.mem = writeBytes(@, KEY_BUF, k)], r, Len(k))} :
       LET old == InfoOf(r)
           cnt == IF res.ret = NOT_FOUND THEN old.count ELSE old.count - 1
       IN /\ SetEngine(res.st)
          /\ IF res.ret = NOT_FOUND \/ res.ret = 0
             THEN UNCHANGED <<handles, info>>
             ELSE /\ handles' = handles \cup {res.ret}
                  /\ info' = Bind(info, res.ret,
                                  [parent |-> r, key |-> k, op |-> "tryRemove", count |-> cnt,
                                   pure |-> FALSE, fresh |-> FALSE,
                                   data |-> [x \in DOMAIN old.data \ {k} |-> old.data[x]]])
          /\ last' = [op |-> "tryRemove", root |-> r, key |-> k, ret |-> res.ret,
                      existed |-> 0, found |-> Lookup(mem, r, k) # 0, count |-> cnt]
  /\ ops' = ops + 1
  /\ UNCHANGED aux

\* a handle is dropped: one decref of its root
DropOp(r, maxOps) ==
  /\ ops < maxOps
  /\ SetEngine(decref(Engine, r))
  /\ handles' = handles \ {r}
  /\ info' = [x \in handles \ {r} |->
                IF info[x].parent = r THEN [info[x] EXCEPT !.parent = NoParent] ELSE info[x]]
  /\ last' = [op |-> "drop", root |-> r, key |-> <<>>, ret |-> 0, existed |-> 0,
              found |-> FALSE, count |-> 0]
  /\ ops' = ops + 1
  /\ UNCHANGED aux

InsertKey == \E r \in handles \cup {0} : \E k \in KeysCore : InsertKeyOp(r, k, MaxOps)
TryRemove == \E r \in handles : \E k \in KeysCore : TryRemoveOp(r, k, MaxOps)
Drop == \E r \in handles : DropOp(r, MaxOps)

Next == InsertKey \/ TryRemove \/ Drop
Spec == Init /\ [][Next]_vars

\* ------------------------------------------------- colliding keys (FNV-1a)
InsertKeyC == \E r \in handles \cup {0} : \E k \in KeysCollide : InsertKeyOp(r, k, MaxOpsC)
TryRemoveC == \E r \in handles : \E k \in KeysCollide : TryRemoveOp(r, k, MaxOpsC)
DropC == \E r \in handles : DropOp(r, MaxOpsC)
NextCollide == InsertKeyC \/ TryRemoveC \/ DropC
SpecCollide == Init /\ [][NextCollide]_vars

\* ------------------------------------------------------------ batch callers
\* the batches a caller encodes: 1..MaxBatch keys
Batches == UNION {[1 .. n -> KeysBatch] : n \in 1 .. MaxBatch}
\* the value byte of the i-th record of the batch written by operation n
BatchVal(n, i) == ValOf(n) + 16 * (i - 1)

\* records [keyLen:4][valLen:4][key][val] from offset off on
RECURSIVE writeInsertBatch(_, _, _, _, _)
writeInsertBatch(m, ks, i, off, n) ==
  IF i > Len(ks) THEN m
  ELSE
    LET k == ks[i]
        m1 == store32(m, BATCH_BUF + off, Len(k))
        m2 == store32(m1, BATCH_BUF + off + 4, ValLen)
        m3 == writeBytes(m2, BATCH_BUF + off + 8, k)
        m4 == store8(m3, BATCH_BUF + off + 8 + Len(k), BatchVal(n, i))
    IN writeInsertBatch(m4, ks, i + 1, off + 8 + Len(k) + ValLen, n)

\* records [keyLen:4][key] from offset off on
RECURSIVE writeDeleteBatch(_, _, _, _)
writeDeleteBatch(m, ks, i, off) ==
  IF i > Len(ks) THEN m
  ELSE
    LET k == ks[i]
        m1 == store32(m, BATCH_BUF + off, Len(k))
    IN writeDeleteBatch(writeBytes(m1, BATCH_BUF + off + 4, k), ks, i + 1, off + 4 + Len(k))

\* the caller's view of a batch applied to its map
RECURSIVE bindAll(_, _, _, _)
bindAll(f, ks, i, n) ==
  IF i > Len(ks) THEN f ELSE bindAll(Bind(f, ks[i], <<BatchVal(n, i)>>), ks, i + 1, n)
Range(f) == {f[x] : x \in DOMAIN f}

\* the bookkeeping shared by the four batch calls: the returned root gets a
\* handle of its own unless it is the empty root or the root passed in
BatchDone(opName, r, ks, res, data) ==
  LET cnt == load32(res.st.mem, BATCH_BUF - 4) IN
  /\ SetEngine(res.st)
  /\ IF res.ret = 0
     THEN UNCHANGED <<handles, info>>
     ELSE /\ handles' = handles \cup {res.ret}
          /\ info' = Bind(info, res.ret,
                          [parent |-> IF res.ret = r THEN InfoOf(r).parent ELSE r,
                           key |-> <<>>, op |-> opName,
                           count |-> IF opName \in {"batchInsert", "batchInsertTransient"}
                                     THEN InfoOf(r).count + cnt ELSE InfoOf(r).count - cnt,
                           pure |-> FALSE, fresh |-> FALSE, data |-> data])
  /\ last' = [op |-> opName, root |-> r, key |-> ks[1], ret |-> res.ret, existed |-> 0,
              found |-> FALSE, count |-> cnt]
  /\ ops' = ops + 1
  /\ UNCHANGED aux

BatchInsertOp(r, ks, maxOps) ==
  /\ ops < maxOps
  /\ Cardinality(handles) < MaxHandles
  /\ BatchDone("batchInsert", r, ks,
               batchInsert([Engine EXCEPT !.mem = writeInsertBatch(@, ks, 1, 0, ops)], r, Len(ks)),
               bindAll(InfoOf(r).data, ks, 1, ops))

BatchDeleteOp(r, ks, maxOps) ==
  /\ ops < maxOps
  /\ Cardinality(handles) < MaxHandles
  /\ BatchDone("batchDelete", r, ks,
               batchDelete([Engine EXCEPT !.mem = writeDeleteBatch(@, ks, 1, 0)], r, Len(ks)),
               [x \in DOMAIN InfoOf(r).data \ Range(ks) |-> InfoOf(r).data[x]])

BatchInsertTransientOp(r, ks, maxOps) ==
  /\ ops < maxOps
  /\ Cardinality(handles) < MaxHandles
  /\ BatchDone("batchInsertTransient", r, ks,
               batchInsertTransient([Engine EXCEPT !.mem = writeInsertBatch(@, ks, 1, 0, ops)],
                                    r, Len(ks)),
               bindAll(InfoOf(r).data, ks, 1, ops))

BatchDeleteTransientOp(r, ks, maxOps) ==
  /\ ops < maxOps
  /\ Cardinality(handles) < MaxHandles
  /\ BatchDone("batchDeleteTransient", r, ks,
               batchDeleteTransient([Engine EXCEPT !.mem = writeDeleteBatch(@, ks, 1, 0)],
                                    r, Len(ks)),
               [x \in DOMAIN InfoOf(r).data \ Range(ks) |-> InfoOf(r).data[x]])

InsertKeyB == \E r \in handles \cup {0} : \E k \in KeysBatch : InsertKeyOp(r, k, MaxOpsB)
TryRemoveB == \E r \in handles : \E k \in KeysBatch : TryRemoveOp(r, k, MaxOpsB)
BatchInsert == \E r \in handles \cup {0} : \E ks \in Batches : BatchInsertOp(r, ks, MaxOpsB)
BatchDelete == \E r \in handles : \E ks \in Batches : BatchDeleteOp(r, ks, MaxOpsB)
DropB == \E r \in handles : DropOp(r, MaxOpsB)
NextBatch == InsertKeyB \/ TryRemoveB \/ BatchInsert \/ BatchDelete \/ DropB
SpecBatch == Init /\ [][NextBatch]_vars

BatchInsertTransient ==
  \E r \in handles \cup {0} : \E ks \in Batches : BatchInsertTransientOp(r, ks, MaxOpsT)
BatchDeleteTransient ==
  \E r \in handles : \E ks \in Batches : BatchDeleteTransientOp(r, ks, MaxOpsT)
DropT == \E r \in handles : DropOp(r, MaxOpsT)
NextTransient == BatchInsertTransient \/ BatchDeleteTransient \/ DropT
SpecTransient == Init /\ [][NextTransient]_vars

\* transient batches on roots built by insertKey
InsertKeyG == \E r \in handles \cup {0} : \E k \in KeysCore : InsertKeyOp(r, k, MaxOpsG)
BatchInsertTransientG ==
  \E r \in handles \cup {0} : \E ks \in Batches : BatchInsertTransientOp(r, ks, MaxOpsG)
BatchDeleteTransientG ==
  \E r \in handles : \E ks \in Batches : BatchDeleteTransientOp(r, ks, MaxOpsG)
NextAgree == InsertKeyG \/ BatchInsertTransientG \/ BatchDeleteTransientG
SpecAgree == Init /\ [][NextAgree]_vars

\* batches over keys two of which have the same 32-bit hash
BatchesCollide == UNION {[1 .. n -> KeysCollide] : n \in 1 .. MaxBatch}
InsertKeyX == \E r \in handles \cup {0} : \E k \in KeysCollide : InsertKeyOp(r, k, MaxOpsX)
BatchInsertX ==
  \E r \in handles \cup {0} : \E ks \in BatchesCollide : BatchInsertOp(r, ks, MaxOpsX)
NextBatchCollide == InsertKeyX \/ BatchInsertX
SpecBatchCollide == Init /\ [][NextBatchCollide]_vars

\* ------------------------------------------------------ a caller of batchGet
\* the keys asked for, the empty key among them, and the batches of them
KeyEmpty == <<>>
KeysGet == {KeyEmpty, KeyA, KeyAH, KeyB}
GetBatches == UNION {[1 .. n -> KeysGet] : n \in 1 .. MaxGet}

\* the records [keyLen:4][key] of ks written to BATCH_BUF, then batchGet(r, n)
BatchGetOp(r, ks, maxOps) ==
  /\ ops < maxOps
  /\ mem' = batchGet(writeDeleteBatch(mem, ks, 1, 0), r, Len(ks))
  /\ last' = [op |-> "batchGet", root |-> r, keys |-> ks, count |-> Len(ks)]
  /\ ops' = ops + 1
  /\ UNCHANGED <<heapEnd, freeList, usedBytes, transientId, handles, info, aux>>

InsertKeyQ == \E r \in handles \cup {0} : \E k \in KeysGet : InsertKeyOp(r, k, MaxOpsU)
BatchGet == \E r \in handles \cup {0} : \E ks \in GetBatches : BatchGetOp(r, ks, MaxOpsU)
NextBatchGet == InsertKeyQ \/ BatchGet
SpecBatchGet == Init /\ [][NextBatchGet]_vars

\* ------------------------------------------------------ a caller iterating
\* initIter(r) on a held root
InitIterOp(r) ==
  /\ iter' = [on |-> TRUE, root |-> r, stack |-> initIter(r), got |-> <<>>,
              k |-> 0, ret |-> 0, calls |-> 0]
  /\ last' = [op |-> "initIter", root |-> r, key |-> <<>>, ret |-> 0, existed |-> 0,
              found |-> FALSE, count |-> 0]
  /\ UNCHANGED <<mem, ops, auxI>>

\* n = nextLeaves(k); the caller reads the n leaf pointers out of BATCH_BUF
NextLeavesOp(k) ==
  /\ iter.on
  /\ iter.calls < MaxCalls
  /\ \E res \in {nextLeaves(mem, iter.stack, k)} :
       /\ mem' = res.mem
       /\ iter' = [iter EXCEPT !.stack = res.stack,
                               !.got = @ \o [i \in 1 .. res.ret |->
                                               load32(res.mem, BATCH_BUF + 12 * (i - 1))],
                               !.k = k, !.ret = res.ret, !.calls = @ + 1]
       /\ last' = [op |-> "nextLeaves", root |-> iter.root, key |-> <<>>, ret |-> res.ret,
                   existed |-> 0, found |-> FALSE, count |-> k]
  /\ UNCHANGED <<ops, auxI>>

InsertKeyI == \E r \in handles \cup {0} : \E k \in KeysCore : InsertKeyOp(r, k, MaxOpsI)
InitIter == \E r \in handles : InitIterOp(r)
NextLeaves == \E k \in 1 .. MaxLeavesK : NextLeavesOp(k)
NextIter == InsertKeyI \/ InitIter \/ NextLeaves
SpecIter == Init /\ [][NextIter]_vars

\* single, batch and transient operations on the same roots
InsertKeyY == \E r \in handles \cup {0} : \E k \in AllKeys : InsertKeyOp(r, k, MaxOpsY)
TryRemoveY == \E r \in handles : \E k \in AllKeys : TryRemoveOp(r, k, MaxOpsY)
BatchInsertY == \E r \in handles \cup {0} : \E ks \in Batches : BatchInsertOp(r, ks, MaxOpsY)
BatchDeleteY == \E r \in handles : \E ks \in Batches : BatchDeleteOp(r, ks, MaxOpsY)
BatchInsertTransientY ==
  \E r \in handles \cup {0} : \E ks \in Batches : BatchInsertTransientOp(r, ks, MaxOpsY)
BatchDeleteTransientY ==
  \E r \in handles : \E ks \in Batches : BatchDeleteTransientOp(r, ks, MaxOpsY)
DropY == \E r \in handles : DropOp(r, MaxOpsY)
NextMixed ==
  \/ InsertKeyY \/ TryRemoveY \/ BatchInsertY \/ BatchDeleteY
  \/ BatchInsertTransientY \/ BatchDeleteTransientY \/ DropY
SpecMixed == Init /\ [][NextMixed]_vars

\* ------------------------------------------------- the allocator on its own
\* the sizes asked for: blocks of 16, 24 and 48 bytes
AllocSizes == {1, 9, 40}
NoMap == <<handles, info, transientId>>

\* p = alloc(n)
AllocOp(n) ==
  /\ ops < MaxOpsA
  /\ Cardinality(DOMAIN live) < MaxLive
  /\ \E res \in {alloc(Engine, n)} :
       /\ SetEngine(res.st)
       /\ live' = Bind(live, res.ret, n)
       /\ last' = [op |-> "alloc", root |-> 0, key |-> <<>>, ret |-> res.ret, existed |-> 0,
                   found |-> FALSE, count |-> n]
  /\ ops' = ops + 1
  /\ UNCHANGED <<handles, info, auxA>>

\* free(p) of a block the caller holds
FreeOp(p) ==
  /\ ops < MaxOpsA
  /\ SetEngine(free(Engine, p))
  /\ live' = [q \in DOMAIN live \ {p} |-> live[q]]
  /\ last' = [op |-> "free", root |-> 0, key |-> <<>>, ret |-> p, existed |-> 0,
              found |-> FALSE, count |-> live[p]]
  /\ ops' = ops + 1
  /\ UNCHANGED <<handles, info, auxA>>

\* the caller fills the bytes it asked for
FillOp(p) ==
  /\ mem' = [a \in DOMAIN mem |-> IF a >= p /\ a < p + live[p] THEN 255 ELSE mem[a]]
  /\ UNCHANGED <<heapEnd, freeList, usedBytes, live, last, ops, NoMap, auxA>>

Alloc == \E n \in AllocSizes : AllocOp(n)
Free == \E p \in DOMAIN live : FreeOp(p)
Fill == \E p \in DOMAIN live : FillOp(p)
NextAlloc == Alloc \/ Free \/ Fill
SpecAlloc == Init /\ [][NextAlloc]_vars

\* reset(): the arena is empty again; memory is not cleared
ResetOp ==
  /\ ops < MaxOpsA
  /\ SetEngine(reset(Engine))
  /\ live' = <<>>
  /\ last' = [op |-> "reset", root |-> 0, key |-> <<>>, ret |-> 0, existed |-> 0,
              found |-> freeList # 0, count |-> usedBytes]
  /\ ops' = ops + 1
  /\ UNCHANGED <<handles, info, auxA>>

Reset == ResetOp
NextAllocReset == Alloc \/ Free \/ Fill \/ Reset
SpecAllocReset == Init /\ [][NextAllocReset]_vars

\* ------------------------------------- readers attached to the same buffer
\* the producer builds the map before any reader attaches; it is idle afterwards
Attached == \E i \in Readers : readers[i].pc # "idle"
InsertKeyR ==
  /\ ~Attached
  /\ \E r \in handles \cup {0} : \E k \in KeysBatch : InsertKeyOp(r, k, MaxOpsR)

\* encodeKey(key): the reader's key bytes go into KEY_BUF
EncodeKeyOp(i, r, k) ==
  /\ readers[i].pc = "idle"
  /\ mem' = writeBytes(mem, KEY_BUF, k)
  /\ readers' = [readers EXCEPT ![i] = [@ EXCEPT !.pc = "encoded", !.root = r, !.key = k]]
  /\ UNCHANGED <<heapEnd, freeList, usedBytes, transientId, handles, info, ops, last, auxR>>

\* wasm.getInfo(root, keyLen)
GetInfoOp(i) ==
  /\ readers[i].pc = "encoded"
  /\ \E res \in {getInfo(mem, readers[i].root, Len(readers[i].key))} :
       /\ mem' = res.mem
       /\ readers' = [readers EXCEPT ![i] = [@ EXCEPT !.pc = "called", !.ret = res.ret]]
  /\ UNCHANGED <<heapEnd, freeList, usedBytes, transientId, handles, info, ops, last, auxR>>

\* the reader takes kLen, vLen and keyPtr from BATCH_BUF and decodes the value
DecodeOp(i) ==
  /\ readers[i].pc = "called"
  /\ LET kLen == load32(mem, BATCH_BUF)
         vLen == load32(mem, BATCH_BUF + 4)
         keyPtr == load32(mem, BATCH_BUF + 8)
         v == IF readers[i].ret = 0 THEN Absent ELSE readBytes(mem, keyPtr + kLen, vLen)
     IN readers' = [readers EXCEPT ![i] = [@ EXCEPT !.pc = "done", !.val = v]]
  /\ UNCHANGED <<mem, heapEnd, freeList, usedBytes, transientId, handles, info, ops, last, auxR>>

EncodeKey == \E i \in Readers : \E r \in handles \cup {0} : \E k \in KeysBatch : EncodeKeyOp(i, r, k)
GetInfo == \E i \in Readers : GetInfoOp(i)
Decode == \E i \in Readers : DecodeOp(i)
NextReaders == InsertKeyR \/ EncodeKey \/ GetInfo \/ Decode
SpecReaders == Init /\ [][NextReaders]_vars

\* ------------------------------------------- a worker with a copy of the buffer
InsertKeyK == \E r \in handles \cup {0} : \E k \in KeysCore : InsertKeyOp(r, k, MaxOpsK)
TryRemoveK == \E r \in handles : \E k \in KeysCore : TryRemoveOp(r, k, MaxOpsK)
DropK == \E r \in handles : DropOp(r, MaxOpsK)

\* new Uint8Array(memory.buffer).set(new Uint8Array(sharedBuf)) with the root
\* handed over; expect is what the producer's get yields for that root now
CopyOp(r) ==
  /\ ~copy.taken
  /\ copy' = [taken |-> TRUE, mem |-> mem, root |-> r,
              expect |-> [k \in KeysCore |-> ValueAt(mem, r, k)], got |-> <<>>]
  /\ UNCHANGED <<mem, heapEnd, freeList, usedBytes, transientId, handles, info, ops, last, auxK>>

\* the worker's get(root, key): encodeKey, getInfo, then kLen, vLen and keyPtr
\* from BATCH_BUF and the value bytes at keyPtr + kLen, all in its own memory
WorkerGet(m, root, k) ==
  Let(getInfo(writeBytes(m, KEY_BUF, k), root, Len(k)), LAMBDA res :
    LET kLen == load32(res.mem, BATCH_BUF)
        vLen == load32(res.mem, BATCH_BUF + 4)
        keyPtr == load32(res.mem, BATCH_BUF + 8)
    IN [mem |-> res.mem,
        val |-> IF res.ret = 0 THEN Absent ELSE readBytes(res.mem, keyPtr + kLen, vLen)])

WorkerGetOp(k) ==
  /\ copy.taken
  /\ k \notin DOMAIN copy.got
  /\ \E res \in {WorkerGet(copy.mem, copy.root, k)} :
       copy' = [copy EXCEPT !.mem = res.mem, !.got = Bind(@, k, res.val)]
  /\ UNCHANGED <<mem, heapEnd, freeList, usedBytes, transientId, handles, info, ops, last, auxK>>

CopyBuffer == \E r \in handles : CopyOp(r)
WorkerLookup == \E k \in KeysCore : WorkerGetOp(k)
NextCopy == InsertKeyK \/ TryRemoveK \/ DropK \/ CopyBuffer \/ WorkerLookup
SpecCopy == Init /\ [][NextCopy]_vars

\* -------------------------------------------------- callers of the vector
EmptyVec == [root |-> 0, depth |-> 0, size |-> 0, ref |-> <<>>]
VecOf(h) == IF h = 0 THEN EmptyVec ELSE vhs[h]
FreeSlot == CHOOSE i \in 1 .. MaxVecHandles :
              i \notin DOMAIN vhs /\ \A j \in 1 .. (i - 1) : j \in DOMAIN vhs
\* the triple a call left at SCRATCH
FromScratch(m, ref) ==
  [root |-> vload(m, SCRATCH), depth |-> vload(m, SCRATCH + 4),
   size |-> vload(m, SCRATCH + 8), ref |-> ref]
\* the sizes a filling loop stops at
FillStops == {31, 1023}
Filling == ops = 0 /\ DOMAIN vhs \subseteq {1}
Settled == ops > 0 \/ VecOf(IF 1 \in DOMAIN vhs THEN 1 ELSE 0).size \in FillStops \cup {0}

\* one round of  for (i = 0; i < n; i++) v = v.push(i + 1)  with the vector
\* that is replaced released
FillPushOp(n) ==
  /\ Filling
  /\ LET h == VecOf(IF 1 \in DOMAIN vhs THEN 1 ELSE 0)
         val == h.size + 1
     IN /\ h.size < n
        /\ \E st1 \in {vecPush(vec, h.root, h.depth, h.size, val)} :
             /\ vec' = vecDecref(st1, h.root, h.depth)
             /\ vhs' = (1 :> FromScratch(st1.mem, Append(h.ref, val)))
             /\ last' = [op |-> "fill", h |-> 1, id |-> 1, idx |-> h.size, val |-> val]
  /\ UNCHANGED <<ops, auxV>>

\* v2 = v.push(val)
VecPushOp(h, maxOps) ==
  /\ Settled
  /\ ops < maxOps
  /\ Cardinality(DOMAIN vhs) < MaxVecHandles
  /\ LET v == VecOf(h)
         val == 2000 + ops
     IN \E st1 \in {vecPush(vec, v.root, v.depth, v.size, val)} :
          /\ vec' = st1
          /\ vhs' = Bind(vhs, FreeSlot, FromScratch(st1.mem, Append(v.ref, val)))
          /\ last' = [op |-> "push", h |-> h, id |-> FreeSlot, idx |-> v.size, val |-> val]
  /\ ops' = ops + 1
  /\ UNCHANGED auxV

\* v2 = v.set(i, val), i < size
VecSetOp(h, i, maxOps) ==
  /\ Settled
  /\ ops < maxOps
  /\ Cardinality(DOMAIN vhs) < MaxVecHandles
  /\ i >= 0 /\ i < vhs[h].size
  /\ LET v == vhs[h]
         val == 3000 + ops
     IN \E res \in {vecSet(vec, v.root, v.depth, i, val)} :
          /\ vec' = res.st
          /\ vhs' = Bind(vhs, FreeSlot, [root |-> res.ret, depth |-> v.depth, size |-> v.size,
                                         ref |-> [v.ref EXCEPT ![i + 1] = val]])
          /\ last' = [op |-> "set", h |-> h, id |-> FreeSlot, idx |-> i, val |-> val]
  /\ ops' = ops + 1
  /\ UNCHANGED auxV

\* v2 = v.pop()
VecPopOp(h, maxOps) ==
  /\ Settled
  /\ ops < maxOps
  /\ Cardinality(DOMAIN vhs) < MaxVecHandles
  /\ LET v == VecOf(h)
     IN \E st1 \in {vecPop(vec, v.root, v.depth, v.size)} :
          /\ vec' = st1
          /\ vhs' = Bind(vhs, FreeSlot,
                         FromScratch(st1.mem, SubSeq(v.ref, 1, Len(v.ref) - 1)))
          /\ last' = [op |-> "pop", h |-> h, id |-> FreeSlot, idx |-> 0, val |-> 0]
  /\ ops' = ops + 1
  /\ UNCHANGED auxV

\* a vector is released: vecDecref(root, depth)
VecDropOp(h, maxOps) ==
  /\ Settled
  /\ ops < maxOps
  /\ vec' = vecDecref(vec, vhs[h].root, vhs[h].depth)
  /\ vhs' = [x \in DOMAIN vhs \ {h} |-> vhs[x]]
  /\ last' = [op |-> "drop", h |-> h, id |-> 0, idx |-> 0, val |-> 0]
  /\ ops' = ops + 1
  /\ UNCHANGED auxV

\* the indices a caller sets: the ends and the first index of each later level
SetIdx(size) == {0, 32, 1024, size - 1}
FillPush == FillPushOp(31)
VecPush == \E h \in DOMAIN vhs \cup {0} : VecPushOp(h, MaxOpsV)
VecSet == \E h \in DOMAIN vhs : \E i \in SetIdx(vhs[h].size) : VecSetOp(h, i, MaxOpsV)
VecPop == \E h \in DOMAIN vhs \cup {0} : VecPopOp(h, MaxOpsV)
VecDrop == \E h \in DOMAIN vhs : VecDropOp(h, MaxOpsV)
NextVector == FillPush \/ VecPush \/ VecSet \/ VecPop \/ VecDrop
SpecVector == Init /\ [][NextVector]_vars

\* the same callers with a loop that fills up to 1023 elements
FillDeep == 1 \in DOMAIN vhs /\ vhs[1].size >= 31 /\ FillPushOp(1023)
VecPushD == \E h \in DOMAIN vhs \cup {0} : VecPushOp(h, MaxOpsD)
VecSetD == \E h \in DOMAIN vhs : \E i \in SetIdx(vhs[h].size) : VecSetOp(h, i, MaxOpsD)
VecPopD == \E h \in DOMAIN vhs \cup {0} : VecPopOp(h, MaxOpsD)
VecDropD == \E h \in DOMAIN vhs : VecDropOp(h, MaxOpsD)
NextVectorDeep == FillPush \/ FillDeep \/ VecPushD \/ VecSetD \/ VecPopD \/ VecDropD
SpecVectorDeep == Init /\ [][NextVectorDeep]_vars

\* ------------------------------------------ callers of the stacks and queues
\* an object the caller holds, 0 standing for a newly constructed empty one
Entry(obj, ref, grown) == [obj |-> obj, ref |-> ref, used |-> FALSE, grown |-> grown]
Held(hs, h, new) == IF h = 0 THEN Entry(new, <<>>, TRUE) ELSE hs[h]
Use(hs, h) == IF h = 0 THEN hs ELSE [hs EXCEPT ![h].used = TRUE]
\* the objects held after a pop or dequeue returned its receiver
Same(hs, h, new) == IF h = 0 THEN Append(hs, Entry(new, <<>>, TRUE)) ELSE hs
SameId(hs, h) == IF h = 0 THEN Len(hs) + 1 ELSE h
NewVal == 10 + ops
Did(op, kind, h, id) == [op |-> op, kind |-> kind, h |-> h, id |-> id]

\* s2 = s.push(value) on a SharedStack
SStackPushOp(h, maxOps) ==
  /\ ops < maxOps
  /\ LET s == Held(stk.hs, h, NewSharedStack)
         r == SharedStackPush(stk.eng, s.obj, NewVal)
     IN /\ stk' = [eng |-> r.st,
                   hs |-> Append(Use(stk.hs, h), Entry(r.ret, Append(s.ref, NewVal), s.grown))]
        /\ last' = Did("push", "SharedStack", h, Len(stk.hs) + 1)
  /\ ops' = ops + 1
  /\ UNCHANGED <<auxS, vec, que, hstk, hque>>

\* s2 = s.pop() on a SharedStack; an empty stack returns itself, and stays held
SStackPopOp(h, maxOps) ==
  /\ ops < maxOps
  /\ LET s == Held(stk.hs, h, NewSharedStack)
         o == SharedStackPop(stk.eng, s.obj)
     IN IF s.obj.size = 0
        THEN /\ stk' = [stk EXCEPT !.hs = Same(@, h, o)]
             /\ last' = Did("pop", "SharedStack", h, SameId(stk.hs, h))
        ELSE /\ stk' = [stk EXCEPT !.hs = Append(Use(@, h),
                                                 Entry(o, SubSeq(s.ref, 1, Len(s.ref) - 1), FALSE))]
             /\ last' = Did("pop", "SharedStack", h, Len(stk.hs) + 1)
  /\ ops' = ops + 1
  /\ UNCHANGED <<auxS, vec, que, hstk, hque>>

\* s2 = s.push(value) on a HAMTStack
HStackPushOp(h, maxOps) ==
  /\ ops < maxOps
  /\ LET s == Held(hstk, h, NewHAMTStack)
     IN \E r \in {HAMTStackPush(vec, s.obj, NewVal)} :
          /\ vec' = r.st
          /\ hstk' = Append(Use(hstk, h), Entry(r.ret, Append(s.ref, NewVal), s.grown))
          /\ last' = Did("push", "HAMTStack", h, Len(hstk) + 1)
  /\ ops' = ops + 1
  /\ UNCHANGED <<auxS, stk, que, hque>>

\* s2 = s.pop() on a HAMTStack; an empty stack returns itself
HStackPopOp(h, maxOps) ==
  /\ ops < maxOps
  /\ LET s == Held(hstk, h, NewHAMTStack)
     IN \E r \in {HAMTStackPop(vec, s.obj)} :
          /\ vec' = r.st
          /\ IF s.obj.vec.size = 0
             THEN /\ hstk' = Same(hstk, h, r.ret)
                  /\ last' = Did("pop", "HAMTStack", h, SameId(hstk, h))
             ELSE /\ hstk' = Append(Use(hstk, h),
                                    Entry(r.ret, SubSeq(s.ref, 1, Len(s.ref) - 1), FALSE))
                  /\ last' = Did("pop", "HAMTStack", h, Len(hstk) + 1)
  /\ ops' = ops + 1
  /\ UNCHANGED <<auxS, stk, que, hque>>

\* q2 = q.enqueue(value) on a HAMTQueue
HQueueEnqueueOp(h, maxOps, linear) ==
  /\ ops < maxOps
  /\ LET q == Held(hque, h, NewHAMTQueue)
     IN /\ linear => ~q.used
        /\ \E r \in {HAMTQueueEnqueue(vec, q.obj, NewVal)} :
             /\ vec' = r.st
             /\ hque' = Append(Use(hque, h), Entry(r.ret, Append(q.ref, NewVal), q.grown))
             /\ last' = Did("enqueue", "HAMTQueue", h, Len(hque) + 1)
  /\ ops' = ops + 1
  /\ UNCHANGED <<auxS, stk, que, hstk>>

\* q2 = q.dequeue() on a HAMTQueue; an empty queue returns itself
HQueueDequeueOp(h, maxOps, linear) ==
  /\ ops < maxOps
  /\ LET q == Held(hque, h, NewHAMTQueue)
     IN IF HAMTQueueSize(q.obj) = 0
        THEN /\ hque' = Same(hque, h, HAMTQueueDequeue(q.obj))
             /\ last' = Did("dequeue", "HAMTQueue", h, SameId(hque, h))
        ELSE /\ linear => ~q.used
             /\ hque' = Append(Use(hque, h), Entry(HAMTQueueDequeue(q.obj), Tail(q.ref), FALSE))
             /\ last' = Did("dequeue", "HAMTQueue", h, Len(hque) + 1)
  /\ ops' = ops + 1
  /\ UNCHANGED <<auxS, vec, stk, que, hstk>>

\* q2 = q.enqueue(value) on a SharedQueue
SQueueEnqueueOp(h, maxOps, linear) ==
  /\ ops < maxOps
  /\ LET q == Held(que.hs, h, NewSharedQueue)
         r == SharedQueueEnqueue(que.eng, q.obj, NewVal)
     IN /\ linear => ~q.used
        /\ que' = [eng |-> r.st,
                   hs |-> Append(Use(que.hs, h), Entry(r.ret, Append(q.ref, NewVal), q.grown))]
        /\ last' = Did("enqueue", "SharedQueue", h, Len(que.hs) + 1)
  /\ ops' = ops + 1
  /\ UNCHANGED <<auxS, vec, stk, hstk, hque>>

\* q2 = q.dequeue() on a SharedQueue; an empty queue returns itself
SQueueDequeueOp(h, maxOps, linear) ==
  /\ ops < maxOps
  /\ LET q == Held(que.hs, h, NewSharedQueue)
     IN IF q.obj.size = 0
        THEN /\ que' = [que EXCEPT !.hs = Same(@, h, SharedQueueDequeue(que.eng, q.obj))]
             /\ last' = Did("dequeue", "SharedQueue", h, SameId(que.hs, h))
        ELSE /\ linear => ~q.used
             /\ que' = [que EXCEPT !.hs = Append(Use(@, h),
                                                 Entry(SharedQueueDequeue(que.eng, q.obj),
                                                       Tail(q.ref), FALSE))]
             /\ last' = Did("dequeue", "SharedQueue", h, Len(que.hs) + 1)
  /\ ops' = ops + 1
  /\ UNCHANGED <<auxS, vec, stk, hstk, hque>>

\* the stacks and the vector-based queue, every object usable any number of times
SStackPush == \E h \in DOMAIN stk.hs \cup {0} : SStackPushOp(h, MaxOpsS)
SStackPop == \E h \in DOMAIN stk.hs \cup {0} : SStackPopOp(h, MaxOpsS)
HStackPush == \E h \in DOMAIN hstk \cup {0} : HStackPushOp(h, MaxOpsS)
HStackPop == \E h \in DOMAIN hstk \cup {0} : HStackPopOp(h, MaxOpsS)
HQueueEnqueue == \E h \in DOMAIN hque \cup {0} : HQueueEnqueueOp(h, MaxOpsS, FALSE)
HQueueDequeue == \E h \in DOMAIN hque \cup {0} : HQueueDequeueOp(h, MaxOpsS, FALSE)
NextAdapters ==
  SStackPush \/ SStackPop \/ HStackPush \/ HStackPop \/ HQueueEnqueue \/ HQueueDequeue
SpecAdapters == Init /\ [][NextAdapters]_vars

\* the two queues, every object the receiver of at most one enqueue or dequeue
SQueueEnqueueL == \E h \in DOMAIN que.hs \cup {0} : SQueueEnqueueOp(h, MaxOpsQ, TRUE)
SQueueDequeueL == \E h \in DOMAIN que.hs \cup {0} : SQueueDequeueOp(h, MaxOpsQ, TRUE)
HQueueEnqueueL == \E h \in DOMAIN hque \cup {0} : HQueueEnqueueOp(h, MaxOpsQ, TRUE)
HQueueDequeueL == \E h \in DOMAIN hque \cup {0} : HQueueDequeueOp(h, MaxOpsQ, TRUE)
NextQueueLinear == SQueueEnqueueL \/ SQueueDequeueL \/ HQueueEnqueueL \/ HQueueDequeueL
SpecQueueLinear == Init /\ [][NextQueueLinear]_vars

\* SharedQueue, every object usable any number of times
SQueueEnqueue == \E h \in DOMAIN que.hs \cup {0} : SQueueEnqueueOp(h, MaxOpsQ, FALSE)
SQueueDequeue == \E h \in DOMAIN que.hs \cup {0} : SQueueDequeueOp(h, MaxOpsQ, FALSE)
NextQueueBranch == SQueueEnqueue \/ SQueueDequeue
SpecQueueBranch == Init /\ [][NextQueueBranch]_vars

\* ------------------------------------------------------------- the set layer
\* ---- class SharedMap, the handle (root, size) over the map engine: has is
\* has, set is insertKey with the size raised unless the key existed, delete
\* is tryRemove with the sentinel giving the map itself back, setMany is
\* batchInsert with the size raised by the inserted count
NewSharedMap == [root |-> 0, size |-> 0]
SharedMapHas(st, m, k) ==
  Let([st EXCEPT !.mem = writeBytes(@, KEY_BUF, k)], LAMBDA st1 :
    R(st1, has(st1.mem, m.root, Len(k)) # 0))
SharedMapSet(st, m, k, v) ==
  Let(insertKey([st EXCEPT !.mem = writeBytes(@, KEY_BUF, k)], m.root, Len(k), ValLen),
      LAMBDA st1 :
        R([st1 EXCEPT !.mem = store8(@, load32(st1.mem, BATCH_BUF + 8), v)],
          [root |-> load32(st1.mem, BATCH_BUF),
           size |-> IF load32(st1.mem, BATCH_BUF + 4) = 0 THEN m.size + 1 ELSE m.size]))
SharedMapDelete(st, m, k) ==
  Let(tryRemove([st EXCEPT !.mem = writeBytes(@, KEY_BUF, k)], m.root, Len(k)), LAMBDA r :
    IF r.ret = NOT_FOUND THEN [st |-> r.st, ret |-> m, same |-> TRUE]
    ELSE [st |-> r.st, ret |-> [root |-> r.ret, size |-> m.size - 1], same |-> FALSE])
SharedMapSetMany(st, m, ks) ==
  Let(batchInsert([st EXCEPT !.mem = writeInsertBatch(@, ks, 1, 0, 0)], m.root, Len(ks)),
      LAMBDA r :
        R(r.st, [root |-> r.ret, size |-> m.size + load32(r.st.mem, BATCH_BUF - 4)]))

\* ---- class SharedSet (HAMTSet is the same text over HAMT): [map]
NewSharedSet == [map |-> NewSharedMap]
SharedSetAdd(st, s, k) ==
  Let(SharedMapHas(st, s.map, k), LAMBDA h :
    IF h.ret THEN [st |-> h.st, ret |-> s, same |-> TRUE]
    ELSE Let(SharedMapSet(h.st, s.map, k, 0), LAMBDA r :
           [st |-> r.st, ret |-> [map |-> r.ret], same |-> FALSE]))
SharedSetDelete(st, s, k) ==
  Let(SharedMapDelete(st, s.map, k), LAMBDA r :
    [st |-> r.st, ret |-> IF r.same THEN s ELSE [map |-> r.ret], same |-> r.same])
\* the values of vs from the i-th on that the map does not hold, after acc
RECURSIVE newEntries(_, _, _, _, _)
newEntries(st, s, vs, i, acc) ==
  IF i > Len(vs) THEN R(st, acc)
  ELSE Let(SharedMapHas(st, s.map, vs[i]), LAMBDA h :
         newEntries(h.st, s, vs, i + 1, IF h.ret THEN acc ELSE Append(acc, vs[i])))
SharedSetAddMany(st, s, vs) ==
  Let(newEntries(st, s, vs, 1, <<>>), LAMBDA e :
    IF e.ret = <<>> THEN [st |-> e.st, ret |-> s, same |-> TRUE]
    ELSE Let(SharedMapSetMany(e.st, s.map, e.ret), LAMBDA r :
           [st |-> r.st, ret |-> [map |-> r.ret], same |-> FALSE]))
SharedSetSize(s) == s.map.size
SharedSetHas(m, s, k) == SharedMapHas([mem |-> m], s.map, k).ret

\* ---- callers of the sets
SetVals == KeysCore
SetBatches == UNION {[1 .. n -> KeysBatch] : n \in 1 .. MaxBatch}
HeldSet(h) == IF h = 0 THEN [obj |-> NewSharedSet, ref |-> {}] ELSE sets[h]
\* the engine call made, the object it returned is held (a returned receiver
\* is held already, unless it was the new empty set)
SetDone(op, h, val, res, ref) ==
  /\ SetEngine(res.st)
  /\ sets' = IF res.same /\ h # 0 THEN sets ELSE Append(sets, [obj |-> res.ret, ref |-> ref])
  /\ last' = [op |-> op, h |-> h, id |-> IF res.same /\ h # 0 THEN h ELSE Len(sets) + 1,
              same |-> res.same, val |-> val, old |-> HeldSet(h).ref]
  /\ ops' = ops + 1
  /\ UNCHANGED auxT

\* s2 = s.add(k)
SetAddOp(h, k) ==
  /\ ops < MaxOpsE
  /\ \E res \in {SharedSetAdd(Engine, HeldSet(h).obj, k)} :
       SetDone("add", h, {k}, res, HeldSet(h).ref \cup {k})
\* s2 = s.delete(k)
SetDeleteOp(h, k) ==
  /\ ops < MaxOpsE
  /\ \E res \in {SharedSetDelete(Engine, HeldSet(h).obj, k)} :
       SetDone("delete", h, {k}, res, HeldSet(h).ref \ {k})
\* s2 = s.addMany(vs)
SetAddManyOp(h, vs) ==
  /\ ops < MaxOpsE
  /\ \E res \in {SharedSetAddMany(Engine, HeldSet(h).obj, vs)} :
       SetDone("addMany", h, Range(vs), res, HeldSet(h).ref \cup Range(vs))

SetAdd == \E h \in DOMAIN sets \cup {0} : \E k \in SetVals : SetAddOp(h, k)
SetDelete == \E h \in DOMAIN sets \cup {0} : \E k \in SetVals : SetDeleteOp(h, k)
SetAddMany == \E h \in DOMAIN sets \cup {0} : \E vs \in SetBatches : SetAddManyOp(h, vs)
NextSet == SetAdd \/ SetDelete \/ SetAddMany
SpecSet == Init /\ [][NextSet]_vars

\* ---------------------------------------------- callers of the string stack
\* the byte lengths of the strings pushed, 10000 as in the test 'long strings'
StrLens == {1, 4095, 10000}
\* 'x'.repeat(n) encoded, with a letter of its own for every push
StrOf(n) == [i \in 1 .. n |-> 97 + ops]
NewStrStack == [head |-> 0, size |-> 0, top |-> Undefined]
HeldStr(h) == IF h = 0 THEN [obj |-> NewStrStack, ref |-> <<>>] ELSE strs.hs[h]

\* s2 = s.push('x'.repeat(n))
StrPushOp(h, n) ==
  /\ ops < MaxOpsP
  /\ \E r \in {SharedStackPushStr(strs.eng, HeldStr(h).obj, StrOf(n))} :
       /\ strs' = [eng |-> r.st,
                   hs |-> Append(strs.hs, [obj |-> r.ret, ref |-> Append(HeldStr(h).ref, r.blob)])]
       /\ last' = [op |-> "pushStr", h |-> h, id |-> Len(strs.hs) + 1, len |-> n]
  /\ ops' = ops + 1
  /\ UNCHANGED auxB

\* s2 = s.pop() on a stack of strings that is not empty
StrPopOp(h) ==
  /\ ops < MaxOpsP
  /\ strs.hs[h].obj.size > 0
  /\ strs' = [strs EXCEPT !.hs = Append(@, [obj |-> SharedStackPopStr(strs.eng, strs.hs[h].obj),
                                           ref |-> SubSeq(strs.hs[h].ref, 1,
                                                          Len(strs.hs[h].ref) - 1)])]
  /\ last' = [op |-> "popStr", h |-> h, id |-> Len(strs.hs) + 1, len |-> 0]
  /\ ops' = ops + 1
  /\ UNCHANGED auxB

\* attachToMemory with the allocation state of a producer whose heap has
\* reached 1 MiB (61436 nodes of 16 bytes past HEAP_START)
StrAttachOp ==
  /\ ops < MaxOpsP
  /\ strs.hs = <<>>
  /\ strs.eng.heapEnd = LL_HEAP_START
  /\ strs' = [strs EXCEPT !.eng = setHeapEnd(@, LL_HEAP_START + 61436 * LL_NODE_SIZE)]
  /\ last' = [op |-> "attach", h |-> 0, id |-> 0, len |-> 0]
  /\ ops' = ops + 1
  /\ UNCHANGED auxB

StrPush == \E h \in DOMAIN strs.hs \cup {0} : \E n \in StrLens : StrPushOp(h, n)
StrPop == \E h \in DOMAIN strs.hs : StrPopOp(h)
StrAttach == StrAttachOp
NextStr == StrPush \/ StrPop \/ StrAttach
SpecStr == Init /\ [][NextStr]_vars

\* ------------------------------------------------ a caller of SharedSortedMap
\* the map a caller works on: the one it made last, the empty map at first
HeldSorted == IF srt.hs = <<>> THEN [obj |-> NewSharedSortedMap, ref |-> <<>>]
              ELSE srt.hs[Len(srt.hs)]
RefSet(ref, k, v) == [x \in DOMAIN ref \cup {k} |-> IF x = k THEN v ELSE ref[x]]
RefDelete(ref, k) == [x \in DOMAIN ref \ {k} |-> ref[x]]

\* m2 = m.set(k, v), v true for a key the map lacks and the opposite of the
\* value held for a key it has; every map made stays held
SortedSetOp(k, v) ==
  /\ ops < MaxOpsM
  /\ v = IF k \in DOMAIN HeldSorted.ref THEN 1 - HeldSorted.ref[k] ELSE 1
  /\ \E r \in {SharedSortedMapSet(srt.eng, HeldSorted.obj, k, v)} :
       srt' = [eng |-> r.st,
               hs |-> Append(srt.hs, [obj |-> r.ret, ref |-> RefSet(HeldSorted.ref, k, v)])]
  /\ last' = [op |-> "sortedSet", key |-> k, val |-> v]
  /\ ops' = ops + 1
  /\ UNCHANGED auxM

\* m2 = m.delete(k)
SortedDeleteOp(k) ==
  /\ ops < MaxOpsM
  /\ \E r \in {SharedSortedMapDelete(srt.eng, HeldSorted.obj, k)} :
       srt' = [eng |-> r.st,
               hs |-> Append(srt.hs, [obj |-> r.ret, ref |-> RefDelete(HeldSorted.ref, k)])]
  /\ last' = [op |-> "sortedDelete", key |-> k, val |-> 0]
  /\ ops' = ops + 1
  /\ UNCHANGED auxM

SortedSet == \E k \in KeysSorted : \E v \in ValuesSorted : SortedSetOp(k, v)
SortedDelete == \E k \in KeysSorted : SortedDeleteOp(k)
NextSorted == SortedSet \/ SortedDelete
SpecSorted == Init /\ [][NextSorted]_vars

\* ------------------------------------------------------- observation helpers
\* the nodes reachable from root by following the child slots of nodes whose
\* bitmap is non-zero, as decref and the iterator follow them
RECURSIVE ReachFrom(_, _, _)
ReachFrom(m, todo, acc) ==
  IF todo = {} THEN acc
  ELSE
    LET n == CHOOSE x \in todo : TRUE
        bm == loadW(m, n + 4)
        kids == IF bm = W0 THEN {}
                ELSE {load32(m, n + 8 + 4 * i) : i \in 0 .. (pc(bm) - 1)} \ {0}
    IN ReachFrom(m, (todo \cup kids) \ (acc \cup {n}), acc \cup {n})
Reach(m, root) == IF root = 0 THEN {} ELSE ReachFrom(m, {root}, {})

\* the blocks on the free list, as <<address, size>>
RECURSIVE FreeFrom(_, _, _)
FreeFrom(m, curr, seen) ==
  IF curr = 0 \/ curr \in seen THEN {}
  ELSE {<<curr, load32(m, curr)>>} \cup FreeFrom(m, load32(m, curr + 4), seen \cup {curr})
FreeBlocks(m, fl) == FreeFrom(m, fl, {})

\* everything of the node at ptr but its refcount header word: the size of its
\* block and the bytes from the bitmap word to the end of the block
NodeBody(m, ptr) ==
  LET size == load32(m, ptr - BLOCK_HDR)
  IN <<size, [i \in 4 .. (size - BLOCK_HDR - 1) |-> load8(m, ptr + i)]>>

HashOf(k) == hashAt(writeBytes(InitMem, KEY_BUF, k), KEY_BUF, Len(k))
SingleOps == {"insertKey", "tryRemove"}

\* ------------------------------------------------------------------- claims

\* C1: a trie built from the empty root by inserting pairwise distinct keys
\* returns, for every inserted key, a leaf holding that key and the value
\* written for it, and 0 for every key that was never inserted.
C1_RoundTrip ==
  \A r \in handles :
    info[r].pure =>
      \A k \in AllKeys :
        LET leaf == Lookup(mem, r, k) IN
        IF k \in DOMAIN info[r].data
        THEN leaf # 0 /\ LeafKey(mem, leaf) = k /\ LeafVal(mem, leaf) = info[r].data[k]
        ELSE leaf = 0

\* C2: an insertKey or tryRemove that returned a new root leaves every node
\* reachable from an existing root as it was, refcount word aside, and every
\* lookup on an existing root returns the same leaf and the same value bytes.
C2_OldRootUnchanged ==
  [][(last'.op \in SingleOps /\ last'.ret # NOT_FOUND) =>
       \A r \in handles :
         /\ \A n \in Reach(mem, r) : NodeBody(mem', n) = NodeBody(mem, n)
         /\ \A k \in AllKeys :
              /\ Lookup(mem', r, k) = Lookup(mem, r, k)
              /\ ValueAt(mem', r, k) = ValueAt(mem, r, k)]_vars
C2_Witness ==
  /\ last.op \in SingleOps
  /\ last.ret \notin {NOT_FOUND, 0}
  /\ last.root \in handles
  /\ Cardinality(Reach(mem, last.root)) >= 3

\* C3: two inserts of distinct new keys b and c into the same root r2 give
\* roots r3 and r4 that each hold every key of r2 plus their own key and not
\* the other's, and r2 holds neither.
C3_BranchIsolation ==
  \A r3, r4 \in handles :
    LET r2 == info[r3].parent
        b == info[r3].key
        c == info[r4].key
    IN (/\ r3 # r4
        /\ info[r3].op = "insertKey" /\ info[r4].op = "insertKey"
        /\ info[r4].parent = r2 /\ r2 \in handles \cup {0}
        /\ b # c /\ info[r3].fresh /\ info[r4].fresh)
       => /\ Lookup(mem, r3, b) # 0 /\ Lookup(mem, r3, c) = 0
          /\ Lookup(mem, r4, c) # 0 /\ Lookup(mem, r4, b) = 0
          /\ Lookup(mem, r2, b) = 0 /\ Lookup(mem, r2, c) = 0
          /\ \A k \in AllKeys :
               Lookup(mem, r2, k) # 0 =>
                 /\ ValueAt(mem, r3, k) = ValueAt(mem, r2, k)
                 /\ ValueAt(mem, r4, k) = ValueAt(mem, r2, k)

C5_RemoveMissing ==
  [][(last'.op = "tryRemove" /\ Lookup(mem, last'.root, last'.key) = 0) =>
       /\ last'.ret = NOT_FOUND
       /\ \A k \in AllKeys :
            ValueAt(mem', last'.root, k) = ValueAt(mem, last'.root, k)]_vars

\* C6: a counter incremented when insertKey reports existed = 0 and
\* decremented when tryRemove returns a root equals the number of leaves the
\* iterator yields for the root, and an insertKey of a key the root already
\* holds reports existed = 1.
C6_SizeAccounting ==
  /\ \A r \in handles :
       info[r].op \in SingleOps => info[r].count = Len(IterLeaves(mem, r))
  /\ (last.op = "insertKey" /\ last.key \in DOMAIN InfoOf(last.root).data
        /\ last.root \in handles \cup {0})
       => last.existed = 1 /\ last.count = InfoOf(last.root).count

\* C7: two distinct keys with the same 32-bit hash, both inserted, are both
\* found by get, each with its own leaf, and both leaves are yielded by the
\* iterator.
C7_FullCollision ==
  \A r \in handles :
    \A k1, k2 \in DOMAIN info[r].data :
      (k1 # k2 /\ HashOf(k1) = HashOf(k2)) =>
        LET l1 == Lookup(mem, r, k1)
            l2 == Lookup(mem, r, k2)
            it == IterLeaves(mem, r)
        IN /\ l1 # 0 /\ LeafKey(mem, l1) = k1
           /\ l2 # 0 /\ LeafKey(mem, l2) = k2
           /\ \E i \in 1 .. Len(it) : it[i] = l1
           /\ \E i \in 1 .. Len(it) : it[i] = l2

\* C8: no operation changes the result of a lookup on a root that an earlier
\* transient batch returned and whose handle is still held.
C8_TransientFrozen ==
  [][\A r \in handles \cap handles' :
       \A k \in AllKeys :
         /\ Lookup(mem', r, k) = Lookup(mem, r, k)
         /\ ValueAt(mem', r, k) = ValueAt(mem, r, k)]_vars

\* C9: no node reachable from the root of a held handle has refcount 0 or
\* lies inside a block of the free list.  (Blocks are freed only when a handle
\* is dropped and handed out only by the other operations, so a block handed
\* out again has been on the free list in an earlier state.)
C9_NoUseAfterFree ==
  \A r \in handles :
    \A n \in Reach(mem, r) :
      /\ getRc(mem, n) >= 1
      /\ \A b \in FreeBlocks(mem, freeList) : ~(b[1] <= n - BLOCK_HDR /\ n - BLOCK_HDR < b[1] + b[2])
C9_Witness ==
  /\ last.op = "drop"
  /\ freeList # 0
  /\ \E r \in handles : Cardinality(Reach(mem, r)) >= 2

\* C10: once every handle has been dropped by one decref of its root, every
\* block allocated by the insertKey and tryRemove calls is free again.
C10_Reclaimed == (handles = {} /\ ops > 0) => usedBytes = 0

\* [a, a + n) and [b, b + k) share no byte
Apart(a, n, b, k) == a + n <= b \/ b + k <= a

C12_ReadersAgree ==
  \A i \in Readers :
    readers[i].pc = "done" => readers[i].val = ValueAt(mem, readers[i].root, readers[i].key)

\* C13: a worker that looks a key up in its copy of the buffer gets what the
\* producer's get gave for that root and key when the copy was taken, found or
\* not and byte for byte, whatever the producer has done to its own arena since
C13_CopyLookup ==
  \A k \in DOMAIN copy.got : copy.got[k] = copy.expect[k]
\* the worker has found a key in its copy that the producer's arena no longer
\* holds at that offset: the producer dropped the root and reused its block
C13_Witness ==
  /\ copy.taken
  /\ \E k \in DOMAIN copy.got :
       /\ copy.got[k] # Absent
       /\ ValueAt(mem, copy.root, k) # copy.got[k]

\* C14: for a root built by insertKey and tryRemove, initIter followed by
\* nextLeaf until it returns 0 yields each leaf reachable from the root once,
\* and for a root built by inserting distinct keys the (key, value) pairs of
\* the yielded leaves are the pairs stored in the root, each once
C14_IterAll ==
  \A r \in handles :
    info[r].op \in SingleOps =>
      LET it == IterLeaves(mem, r)
          pairs == [i \in 1 .. Len(it) |-> <<LeafKey(mem, it[i]), LeafVal(mem, it[i])>>]
      IN /\ \A i, j \in 1 .. Len(it) : i # j => it[i] # it[j]
         /\ Range(it) = {n \in Reach(mem, r) : loadW(mem, n + 4) = W0}
         /\ info[r].pure =>
              /\ Len(it) = Cardinality(DOMAIN info[r].data)
              /\ Range(pairs) = {<<k, info[r].data[k]>> : k \in DOMAIN info[r].data}

\* what vecGet yields for the indices below the size of a vector
Contents(m, v) == [i \in 1 .. v.size |-> vecGet(m, v.root, v.depth, i - 1)]

\* C15: the vector a vecPush, vecSet or vecPop has just produced has the size
\* of the reference list and holds at every index below its size the element
\* the reference list holds there
C15_VectorRefines ==
  (last.op \in {"fill", "push", "set", "pop"} /\ last.id \in DOMAIN vhs) =>
    LET v == vhs[last.id]
    IN /\ v.size = Len(v.ref)
       /\ Contents(vec.mem, v) = v.ref
\* a push has just added the third level: the vector has depth 2 and 1025
\* elements, and the full two-level vector it was made from is still held
C15_Witness ==
  /\ last.op = "push"
  /\ last.id \in DOMAIN vhs
  /\ vhs[last.id].depth = 2
  /\ vhs[last.id].size = WIDTH * WIDTH + 1
  /\ \E h \in DOMAIN vhs : vhs[h].depth = 1 /\ vhs[h].size = WIDTH * WIDTH

\* C16: the vector vecSet(root, depth, i, x) produces holds x at i and at every
\* other index what the vector it was made from holds, and every vector still
\* held, the ones vecSet, vecPush and vecPop were applied to among them, holds
\* what it held when it was made
C16_SetFrame ==
  /\ (last.op = "set" /\ last.id \in DOMAIN vhs /\ last.h \in DOMAIN vhs) =>
       LET new == vhs[last.id]
           old == vhs[last.h]
       IN /\ vecGet(vec.mem, new.root, new.depth, last.idx) = last.val
          /\ \A j \in 0 .. (old.size - 1) :
               j # last.idx => vecGet(vec.mem, new.root, new.depth, j)
                                 = vecGet(vec.mem, old.root, old.depth, j)
  /\ \A h \in DOMAIN vhs : Contents(vec.mem, vhs[h]) = vhs[h].ref
\* a set on a two-level vector, with the vector it was applied to and a third
\* one still held
C16_Witness ==
  /\ last.op = "set"
  /\ last.id \in DOMAIN vhs
  /\ last.h \in DOMAIN vhs
  /\ vhs[last.id].depth = 1
  /\ Cardinality(DOMAIN vhs) = 3

\* ---- what a caller observes when it empties a stack or a queue: the peek
\* value and the size before each pop or dequeue, and the object left
RECURSIVE DrainSharedStack(_, _)
DrainSharedStack(e, s) ==
  IF s.size = 0 THEN [seen |-> <<>>, end |-> s]
  ELSE LET d == DrainSharedStack(e, SharedStackPop(e, s))
       IN [seen |-> <<[v |-> SharedStackPeek(s), n |-> s.size]>> \o d.seen, end |-> d.end]
RECURSIVE DrainHAMTStack(_, _)
DrainHAMTStack(st, s) ==
  IF HAMTStackSize(s) = 0 THEN [seen |-> <<>>, end |-> s, mem |-> st.mem]
  ELSE Let(HAMTStackPop(st, s), LAMBDA r :
         LET d == DrainHAMTStack(r.st, r.ret)
         IN [seen |-> <<[v |-> HAMTStackPeek(st.mem, s), n |-> HAMTStackSize(s)]>> \o d.seen,
             end |-> d.end, mem |-> d.mem])
\* what emptying a stack that holds ref, oldest first, should show
Lifo(ref) == [i \in 1 .. Len(ref) |-> [v |-> ref[Len(ref) + 1 - i], n |-> Len(ref) + 1 - i]]

\* C17: a SharedStack or a HAMTStack made by pushing x1..xn onto an empty
\* stack shows xn, ..., x1 under repeated peek-then-pop, its size falling by
\* one with every pop, and ends empty; an empty stack's pop returns the stack
\* itself and its peek is undefined
C17_StackLIFO ==
  /\ \A h \in DOMAIN stk.hs :
       LET s == stk.hs[h]
           d == DrainSharedStack(stk.eng, s.obj)
       IN /\ s.grown => /\ d.seen = Lifo(s.ref)
                        /\ d.end.size = 0
                        /\ SharedStackPeek(d.end) = Undefined
          /\ s.obj.size = 0 => /\ SharedStackPop(stk.eng, s.obj) = s.obj
                               /\ SharedStackPeek(s.obj) = Undefined
  /\ \A h \in DOMAIN hstk :
       LET s == hstk[h]
           d == DrainHAMTStack(vec, s.obj)
       IN /\ s.grown => /\ d.seen = Lifo(s.ref)
                        /\ HAMTStackSize(d.end) = 0
                        /\ HAMTStackPeek(d.mem, d.end) = Undefined
          /\ HAMTStackSize(s.obj) = 0 => /\ HAMTStackPop(vec, s.obj).ret = s.obj
                                         /\ HAMTStackPeek(vec.mem, s.obj) = Undefined
\* two pushes onto an empty stack of either kind, and a pop just applied to an
\* empty stack
C17_Witness ==
  /\ \E h \in DOMAIN stk.hs : stk.hs[h].grown /\ Len(stk.hs[h].ref) = 2
  /\ \E h \in DOMAIN hstk : hstk[h].grown /\ Len(hstk[h].ref) = 1
  /\ last.op = "pop"
  /\ last.kind = "HAMTStack"
  /\ HAMTStackSize(hstk[last.id].obj) = 0
  /\ last.h \in {0, last.id}

\* C18: with every queue object the receiver of at most one enqueue or
\* dequeue, a SharedQueue or HAMTQueue reached from the empty queue shows under
\* peek the oldest value enqueued and not yet dequeued, has as size the number
\* of enqueues less the dequeues that removed a value, and has size 0 exactly
\* when peek is undefined
C18_QueueFIFO ==
  /\ \A h \in DOMAIN que.hs :
       LET q == que.hs[h]
       IN /\ SharedQueuePeek(q.obj) = (IF q.ref = <<>> THEN Undefined ELSE Head(q.ref))
          /\ q.obj.size = Len(q.ref)
          /\ (q.obj.size = 0) <=> (SharedQueuePeek(q.obj) = Undefined)
  /\ \A h \in DOMAIN hque :
       LET q == hque[h]
       IN /\ HAMTQueuePeek(vec.mem, q.obj) = (IF q.ref = <<>> THEN Undefined ELSE Head(q.ref))
          /\ HAMTQueueSize(q.obj) = Len(q.ref)
          /\ (HAMTQueueSize(q.obj) = 0) <=> (HAMTQueuePeek(vec.mem, q.obj) = Undefined)
\* a SharedQueue that was enqueued to twice, dequeued from and enqueued to
\* again, every object used once
C18_Witness ==
  /\ last.op = "enqueue"
  /\ last.kind = "SharedQueue"
  /\ Len(que.hs) = 4
  /\ ~que.hs[4].grown
  /\ Len(que.hs[4].ref) = 2
  /\ \A h \in 1 .. 3 : que.hs[h].used

RECURSIVE DrainSharedQueue(_, _)
DrainSharedQueue(e, q) ==
  IF q.size = 0 THEN [seen |-> <<>>, end |-> q]
  ELSE LET d == DrainSharedQueue(e, SharedQueueDequeue(e, q))
       IN [seen |-> <<[v |-> SharedQueuePeek(q), n |-> q.size]>> \o d.seen, end |-> d.end]
\* what emptying a queue that holds ref, oldest first, should show
Fifo(ref) == [i \in 1 .. Len(ref) |-> [v |-> ref[i], n |-> Len(ref) + 1 - i]]

\* C19: every SharedQueue held, whatever was enqueued to or dequeued from the
\* queues it was made from or the queues made from it, shows under repeated
\* peek-then-dequeue the values of its own history, oldest first, with its
\* own sizes: b1 = q.enqueue(x) shows q's values then x, b2 = q.enqueue(y)
\* shows q's values then y, and q shows q's values
C19_QueueBranch ==
  \A h \in DOMAIN que.hs :
    DrainSharedQueue(que.eng, que.hs[h].obj).seen = Fifo(que.hs[h].ref)

RECURSIVE DrainHAMTQueue(_, _)
DrainHAMTQueue(m, q) ==
  IF HAMTQueueSize(q) = 0 THEN [seen |-> <<>>, end |-> q]
  ELSE LET d == DrainHAMTQueue(m, HAMTQueueDequeue(q))
       IN [seen |-> <<[v |-> HAMTQueuePeek(m, q), n |-> HAMTQueueSize(q)]>> \o d.seen,
           end |-> d.end]
Last(ref) == IF ref = <<>> THEN Undefined ELSE ref[Len(ref)]
First(ref) == IF ref = <<>> THEN Undefined ELSE Head(ref)

\* C20: every HAMTStack, HAMTQueue and SharedStack held, whatever was pushed
\* to or popped from (enqueued to or dequeued from) the objects it was made
\* from or the objects made from it, has the peek value, the size and the full
\* drain sequence of its own history; a HAMTQueue's size is vec.size - head
\* and never negative, and dequeue on an empty HAMTQueue returns the queue
\* itself
C20_AdaptersPersistent ==
  /\ \A h \in DOMAIN hstk :
       LET s == hstk[h]
       IN /\ HAMTStackPeek(vec.mem, s.obj) = Last(s.ref)
          /\ HAMTStackSize(s.obj) = Len(s.ref)
          /\ DrainHAMTStack(vec, s.obj).seen = Lifo(s.ref)
  /\ \A h \in DOMAIN hque :
       LET q == hque[h]
       IN /\ HAMTQueuePeek(vec.mem, q.obj) = First(q.ref)
          /\ HAMTQueueSize(q.obj) = Len(q.ref)
          /\ DrainHAMTQueue(vec.mem, q.obj).seen = Fifo(q.ref)
          /\ HAMTQueueSize(q.obj) = q.obj.vec.size - q.obj.head
          /\ HAMTQueueSize(q.obj) >= 0
          /\ HAMTQueueSize(q.obj) = 0 => HAMTQueueDequeue(q.obj) = q.obj
  /\ \A h \in DOMAIN stk.hs :
       LET s == stk.hs[h]
       IN /\ SharedStackPeek(s.obj) = Last(s.ref)
          /\ s.obj.size = Len(s.ref)
          /\ DrainSharedStack(stk.eng, s.obj).seen = Lifo(s.ref)
\* a HAMTStack of one value with two stacks made from it by different pushes,
\* and a dequeue just applied to an empty HAMTQueue
C20_Witness ==
  /\ \E s, b1, b2 \in DOMAIN hstk :
       /\ Len(hstk[s].ref) = 1
       /\ Len(hstk[b1].ref) = 2
       /\ Len(hstk[b2].ref) = 2
       /\ SubSeq(hstk[b1].ref, 1, 1) = hstk[s].ref
       /\ SubSeq(hstk[b2].ref, 1, 1) = hstk[s].ref
       /\ hstk[b1].ref # hstk[b2].ref
  /\ last.op = "dequeue"
  /\ last.kind = "HAMTQueue"
  /\ HAMTQueueSize(hque[last.id].obj) = 0

\* the values a set contains, as has reports them
Contained(s) == {k \in SetVals : SharedSetHas(mem, s, k)}

\* C21: the size of every SharedSet held is the number of distinct values it
\* contains, which are the values added and not deleted since; add of a value
\* already present and delete of a value not present return the set they were
\* applied to; addMany counts a new value that occurs several times in its
\* batch once
C21_SetLayer ==
  /\ \A h \in DOMAIN sets :
       /\ SharedSetSize(sets[h].obj) = Cardinality(Contained(sets[h].obj))
       /\ Contained(sets[h].obj) = sets[h].ref
  /\ (last.op = "add" /\ last.val \subseteq last.old) => last.same
  /\ (last.op = "delete" /\ last.val \cap last.old = {}) => last.same
  /\ (last.op = "addMany" /\ last.val \subseteq last.old) => last.same

\* C22: for every string stack held that is not empty, the word kept in its
\* head node decodes (ptr = packed & 0xFFFFF, len = packed >>> 20) to the
\* pointer allocBlob returned for that string and to the byte length that was
\* packed with it, whatever the length of the string and the heap offset
C22_PackedWord ==
  \A h \in DOMAIN strs.hs :
    strs.hs[h].obj.size > 0 =>
      LET packed == peekBlob(strs.eng.mem, strs.hs[h].obj.head)
          blob == strs.hs[h].ref[Len(strs.hs[h].ref)]
      IN /\ PackedPtr(packed) = blob.ptr
         /\ PackedLen(packed) = blob.len

\* the slots whose bit is set in a bitmap, and the slot of the i-th child
\* (counted from 0) of a node with that bitmap
SlotsOf(bm) ==
  {i \in 0 .. 31 : IF i < 16 THEN (bm.lo \div 2 ^ i) % 2 = 1 ELSE (bm.hi \div 2 ^ (i - 16)) % 2 = 1}
SlotOfChild(bm, i) == CHOOSE s \in SlotsOf(bm) : Cardinality({t \in SlotsOf(bm) : t < s}) = i
\* the node at n has the layout of a leaf: a key of a length the callers use,
\* stored with its own hash
IsLeaf(m, n) ==
  /\ leafKeyLen(m, n) <= MaxKeyLen
  /\ loadW(m, n + 8) = hashAt(m, leafKeyPtr(n), leafKeyLen(m, n))
\* the subtree at node, reached through the slots of path, is well formed
RECURSIVE WellFormedAt(_, _, _)
WellFormedAt(m, node, path) ==
  LET bm == loadW(m, node + 4) IN
  IF bm = W0
  THEN /\ IsLeaf(m, node)
       /\ \A j \in 1 .. Len(path) : Slot(loadW(m, node + 8), BITS * (j - 1)) = path[j]
  ELSE \A i \in 0 .. (pc(bm) - 1) :
         /\ load32(m, node + 8 + 4 * i) # 0
         /\ WellFormedAt(m, load32(m, node + 8 + 4 * i), Append(path, SlotOfChild(bm, i)))

\* C23: under every root that insertKey or tryRemove returned, a node with a
\* non-zero bitmap has popcount(bitmap) non-null children in ascending slot
\* order, a node with bitmap 0 is a leaf, a leaf reached through the slots
\* s0..s(d-1) has ((keyHash >> 5j) & 31) = sj for every j < d, and no two
\* leaves hold the same key bytes
C23_WellFormed ==
  \A r \in handles :
    info[r].op \in SingleOps =>
      /\ WellFormedAt(mem, r, <<>>)
      /\ \A l1, l2 \in {n \in Reach(mem, r) : loadW(mem, n + 4) = W0} :
           l1 # l2 => LeafKey(mem, l1) # LeafKey(mem, l2)

\* the nodes on the way from root down to and including the node at leaf
PathTo(m, root, leaf) == {n \in Reach(m, root) : leaf \in Reach(m, n)}
\* the child slots of the nodes of path that hold x
SlotsTo(m, path, x) ==
  {<<p, i>> \in path \X (0 .. 31) :
     /\ loadW(m, p + 4) # W0
     /\ i < pc(loadW(m, p + 4))
     /\ load32(m, p + 8 + 4 * i) = x}
HeldNodes(m) == UNION {Reach(m, r) : r \in handles}

\* C24: when insertKey(r, k, v) has returned r', every node on the way from
\* r' down to and including the new leaf was allocated by the call and has
\* refcount 1, and every node that existed before and that one of them
\* refers to has its refcount raised by the number of their slots that hold it
C24_PathCopyRefcounts ==
  [][(last'.op = "insertKey" /\ last'.ret # 0) =>
       LET leaf == Lookup(mem', last'.ret, last'.key)
           path == PathTo(mem', last'.ret, leaf)
           old == HeldNodes(mem)
       IN /\ leaf # 0
          /\ \A n \in path : n \notin old /\ getRc(mem', n) = 1
          /\ \A x \in Reach(mem', last'.ret) \ path :
               SlotsTo(mem', path, x) # {} =>
                 /\ x \in old
                 /\ getRc(mem', x) = getRc(mem, x) + Cardinality(SlotsTo(mem', path, x))]_vars

\* C25: a tryRemove that returned 0xFFFFFFFF leaves the refcount of every node
\* under a held root as it was, the root, the internal nodes on the search
\* path and the leaves included, and allocates and frees no block
C25_FailedRemoveFrame ==
  [][(last'.op = "tryRemove" /\ last'.ret = NOT_FOUND) =>
       /\ \A n \in HeldNodes(mem) : getRc(mem', n) = getRc(mem, n)
       /\ heapEnd' = heapEnd
       /\ freeList' = freeList
       /\ usedBytes' = usedBytes
       /\ FreeBlocks(mem', freeList') = FreeBlocks(mem, freeList)]_vars

\* C26: in every state reached by alloc and free the free list is a finite
\* chain without a cycle whose block addresses ascend strictly from the head:
\* the link of every block on it is 0 or a higher address
C26_FreeListAscending ==
  \A b \in FreeBlocks(mem, freeList) :
    \E nx \in {load32(mem, b[1] + 4)} : nx = 0 \/ nx > b[1]

\* C27: in every state reached by alloc and free no block on the free list
\* ends where another block on the free list begins
C27_Coalesced ==
  \A a, b \in FreeBlocks(mem, freeList) : a[1] + a[2] # b[1]

RECURSIVE SumSizes(_)
SumSizes(S) ==
  IF S = {} THEN 0
  ELSE LET b == CHOOSE x \in S : TRUE IN b[2] + SumSizes(S \ {b})
\* the blocks given out and not given back, as <<address, size>>
LiveBlocks == {<<p - BLOCK_HDR, load32(mem, p - BLOCK_HDR)>> : p \in DOMAIN live}

\* C28: in every state reached by alloc, free and reset, usedBytes plus the
\* sizes of the blocks on the free list is heapEnd - HEAP_START, and usedBytes
\* is the sum of the sizes of the blocks given out and not given back
C28_Conservation ==
  /\ usedBytes + SumSizes(FreeBlocks(mem, freeList)) = heapEnd - HEAP_START
  /\ usedBytes = SumSizes(LiveBlocks)
\* a reset of an arena that had bytes in use and blocks on its free list
C28_Witness ==
  /\ last.op = "reset"
  /\ last.count > 0
  /\ last.found
  /\ usedBytes = 0

TransientOps == {"batchInsertTransient", "batchDeleteTransient"}

\* C29: a transient batch leaves transientId at 0; the owner tag it ran with,
\* read from the root that batchInsertTransient returns, is in 1..255; and of
\* two batchInsertTransient calls, one right after the other, the second runs
\* with another tag than the first
C29_OwnerTags ==
  [][(last'.op \in TransientOps /\ ops' = ops + 1) =>
       /\ transientId' = 0
       /\ (last'.op = "batchInsertTransient" /\ last'.ret # 0) =>
            /\ getOwner(mem', last'.ret) \in 1 .. 255
            /\ (last.op = "batchInsertTransient" /\ last.ret # 0) =>
                 getOwner(mem', last'.ret) # getOwner(mem, last.ret)]_vars

\* no node under root carries an owner tag
Untagged(m, root) == \A n \in Reach(m, root) : getOwner(m, n) = 0
\* the step's transient batch against the outcome pers of the persistent
\* batch run from the same state on the same root r and records
AgreeWith(r, pers) ==
  /\ \A k \in AllKeys : ValueAt(mem', last'.ret, k) = ValueAt(pers.st.mem, pers.ret, k)
  /\ load32(mem', BATCH_BUF - 4) = load32(pers.st.mem, BATCH_BUF - 4)
  /\ \A k \in AllKeys : ValueAt(mem', r, k) = ValueAt(mem, r, k)

\* C30: for a root r without owner-tagged nodes, batchInsertTransient(r, ks)
\* returns a root with the key-to-value mapping of the root batchInsert(r, ks)
\* returns from the same state and stores the same inserted count, and
\* batchDeleteTransient agrees in the same way with batchDelete; every lookup on
\* r yields after the batch what it yielded before
C30_TransientAgrees ==
  [][\A r \in handles \cup {0} : \A ks \in Batches :
       /\ (/\ Untagged(mem, r)
           /\ last'.op = "batchInsertTransient" /\ last'.root = r
           /\ BatchInsertTransientOp(r, ks, MaxOpsG)) =>
            AgreeWith(r, batchInsert([Engine EXCEPT !.mem = writeInsertBatch(@, ks, 1, 0, ops)],
                                     r, Len(ks)))
       /\ (/\ Untagged(mem, r)
           /\ last'.op = "batchDeleteTransient" /\ last'.root = r
           /\ BatchDeleteTransientOp(r, ks, MaxOpsG)) =>
            AgreeWith(r, batchDelete([Engine EXCEPT !.mem = writeDeleteBatch(@, ks, 1, 0)],
                                     r, Len(ks)))]_vars
\* a transient batch has inserted two new keys under a held root without
\* owner-tagged nodes, the second record meeting the nodes made for the first
C30_Witness ==
  /\ last.op = "batchInsertTransient"
  /\ last.count = 2
  /\ last.root \in handles
  /\ last.ret # last.root
  /\ Untagged(mem, last.root)

\* the records of a batch given one by one to insertKey, as a caller does it:
\* key into KEY_BUF, insertKey, value byte written at the returned valPtr
RECURSIVE InsertEach(_, _, _, _, _)
InsertEach(st, root, ks, i, n) ==
  IF i > Len(ks) THEN R(st, root)
  ELSE Let(insertKey([st EXCEPT !.mem = writeBytes(@, KEY_BUF, ks[i])], root, Len(ks[i]), ValLen),
           LAMBDA st1 :
             InsertEach([st1 EXCEPT !.mem = store8(@, load32(st1.mem, BATCH_BUF + 8),
                                                   BatchVal(n, i))],
                        load32(st1.mem, BATCH_BUF), ks, i + 1, n))
AllBatches == Batches \cup BatchesCollide

\* C31: the root batchInsert(r, ks) returns maps every key to the value that
\* the root built by insertKey on the records in order maps it to; get finds
\* every key of the batch in it, in a leaf holding that key; and the stored
\* count is the number of distinct keys of the batch that get does not find
\* in r
C31_BatchInsert ==
  [][\A r \in handles \cup {0} : \A ks \in AllBatches :
       (last'.op = "batchInsert" /\ last'.root = r /\ last'.key = ks[1]
        /\ (BatchInsertOp(r, ks, MaxOpsB) \/ BatchInsertOp(r, ks, MaxOpsX))) =>
         /\ \E seq \in {InsertEach(Engine, r, ks, 1, ops)} :
              \A k \in AllKeys :
                ValueAt(mem', last'.ret, k) = ValueAt(seq.st.mem, seq.ret, k)
         /\ \A i \in DOMAIN ks :
              \E leaf \in {Lookup(mem', last'.ret, ks[i])} :
                leaf # 0 /\ LeafKey(mem', leaf) = ks[i]
         /\ load32(mem', BATCH_BUF - 4) =
              Cardinality({k \in Range(ks) : Lookup(mem, r, k) = 0})]_vars

Min(a, b) == IF a < b THEN a ELSE b

Children(m, n) ==
  IF loadW(m, n + 4) = W0 THEN {}
  ELSE {load32(m, n + 8 + 4 * i) : i \in 0 .. (pc(loadW(m, n + 4)) - 1)}
\* no path of child slots from node leads back to a node on the path to it
RECURSIVE NoCycle(_, _, _)
NoCycle(m, node, path) ==
  /\ node \notin path
  /\ \A c \in Children(m, node) : NoCycle(m, c, path \cup {node})

\* C33: after every sequence of insert, remove, batch and transient
\* operations no node under a held root is its own descendant; nextLeaf()
\* after initIter(r) reaches the return value 0 within as many leaves as
\* r has nodes; and decref(r) comes to an end, with no more bytes in use than
\* before
C33_Acyclic ==
  \A r \in handles :
    /\ NoCycle(mem, r, {})
    /\ Len(IterLeaves(mem, r)) <= Cardinality(Reach(mem, r))
    /\ decref(Engine, r).usedBytes <= usedBytes
\* three operations among which a transient batch, a root of several nodes
\* being held
C33_Witness ==
  /\ ops = 3
  /\ last.op \in TransientOps
  /\ \E r \in handles : Cardinality(Reach(mem, r)) >= 3

\* the nodes and leaves under a vector root, each with its level, 0 for a leaf
RECURSIVE VecReach(_, _, _)
VecReach(m, ptr, depth) ==
  IF ptr = 0 THEN {}
  ELSE {<<ptr, depth>>} \cup
       (IF depth = 0 THEN {}
        ELSE UNION {VecReach(m, vload(m, ptr + 4 + 4 * i), depth - 1) : i \in 0 .. (WIDTH - 1)})
\* the blocks on a free list of the vector engine
RECURSIVE VecFreeFrom(_, _, _)
VecFreeFrom(m, ptr, seen) ==
  IF ptr = 0 \/ ptr \in seen THEN seen ELSE VecFreeFrom(m, vload(m, ptr + 4), seen \cup {ptr})
VecFree(st) == VecFreeFrom(st.mem, st.freeNodes, {}) \cup VecFreeFrom(st.mem, st.freeLeaves, {})
\* the bytes alloc takes for the blocks of a set of <<offset, level>>
RECURSIVE VecBytes(_)
VecBytes(S) ==
  IF S = {} THEN 0
  ELSE LET x == CHOOSE y \in S : TRUE
       IN (((IF x[2] = 0 THEN LEAF_SIZE ELSE NODE_SIZE) + 7) \div 8) * 8 + VecBytes(S \ {x})

\* C34: a vecPush on a vector with size = 32^(depth+1) leaves the triple
\* (new root, depth+1, size+1); the new root has the old root as child 0; the
\* old root's refcount has grown by exactly 1; and every block the call took,
\* from the heap end or from a free list, is under the new root
C34_PushFull ==
  [][(/\ last'.op = "push" /\ ops' = ops + 1
      /\ VecOf(last'.h).size = WIDTH ^ (VecOf(last'.h).depth + 1)) =>
       \E v \in {VecOf(last'.h)} : \E new \in {vhs'[last'.id]} :
         \E reach \in {VecReach(vec'.mem, new.root, new.depth)} :
           /\ new.depth = v.depth + 1
           /\ new.size = v.size + 1
           /\ vload(vec'.mem, new.root + 4) = v.root
           /\ vload(vec'.mem, v.root) = vload(vec.mem, v.root) + 1
           /\ VecBytes({x \in reach : x[1] >= vec.heapEnd}) = vec'.heapEnd - vec.heapEnd
           /\ VecFree(vec) \ VecFree(vec') \subseteq {x[1] : x \in reach}]_vars

\* C35: every vector made from the empty one has size <= 32^(depth+1) and,
\* unless its depth is 0, size > 32^depth; a vecPop on size 0 leaves (0, 0, 0),
\* a vecPop with depth > 0 and size-1 <= 32^depth leaves the old root's child 0
\* with depth-1 and size-1, and any other vecPop the same root and depth with
\* size-1
C35_DepthInvariant ==
  [][/\ \A h \in DOMAIN vhs' :
          /\ vhs'[h].size <= WIDTH ^ (vhs'[h].depth + 1)
          /\ vhs'[h].depth = 0 \/ vhs'[h].size > WIDTH ^ vhs'[h].depth
     /\ (last'.op = "pop" /\ ops' = ops + 1) =>
          \E v \in {VecOf(last'.h)} : \E new \in {vhs'[last'.id]} :
            <<new.root, new.depth, new.size>> =
              IF v.size = 0 THEN <<0, 0, 0>>
              ELSE IF v.depth > 0 /\ v.size - 1 <= WIDTH ^ v.depth
                   THEN <<vload(vec.mem, v.root + 4), v.depth - 1, v.size - 1>>
                   ELSE <<v.root, v.depth, v.size - 1>>]_vars
\* a vecPop has just given up a level: the two-level vector of 33 elements is
\* still held and the vector made from it has 32 elements and depth 0
C35_Witness ==
  /\ last.op = "pop"
  /\ last.h \in DOMAIN vhs /\ last.id \in DOMAIN vhs
  /\ vhs[last.h].depth = 1 /\ vhs[last.h].size = WIDTH + 1
  /\ vhs[last.id].depth = 0 /\ vhs[last.id].size = WIDTH
  /\ vhs[last.id].root = vload(vec.mem, vhs[last.h].root + 4)

\* C36: every map a caller has made from the empty map by set and delete, the
\* earlier ones included, answers get(k) with the value last set for k and not
\* deleted since, undefined otherwise, has(k) accordingly, and its size is the
\* number of such keys
C36_RefinesMap ==
  \A i \in DOMAIN srt.hs :
    /\ \A k \in KeysSorted :
         /\ SharedSortedMapGet(srt.eng.mem, srt.hs[i].obj, k)
              = IF k \in DOMAIN srt.hs[i].ref THEN srt.hs[i].ref[k] ELSE Undefined
         /\ SharedSortedMapHas(srt.eng.mem, srt.hs[i].obj, k) = (k \in DOMAIN srt.hs[i].ref)
    /\ srt.hs[i].obj.size = Cardinality(DOMAIN srt.hs[i].ref)

\* byte-wise order of keys, the shorter first where one is a prefix of the other
KeyLess(a, b) ==
  \/ \E i \in 1 .. Min(Len(a), Len(b)) :
       /\ a[i] < b[i]
       /\ \A j \in 1 .. (i - 1) : a[j] = b[j]
  \/ /\ Len(a) < Len(b)
     /\ \A j \in 1 .. Len(a) : a[j] = b[j]
\* the keys of the nodes under n, and n being a binary search tree over them
RECURSIVE TreeKeys(_, _)
TreeKeys(m, n) ==
  IF n = 0 THEN {}
  ELSE TreeKeys(m, getLeft(m, n)) \cup {decodeKeyFast(m, getKeyPacked(m, n))}
       \cup TreeKeys(m, getRight(m, n))
RECURSIVE IsSearchTree(_, _)
IsSearchTree(m, n) ==
  \/ n = 0
  \/ /\ \A k \in TreeKeys(m, getLeft(m, n)) : KeyLess(k, decodeKeyFast(m, getKeyPacked(m, n)))
     /\ \A k \in TreeKeys(m, getRight(m, n)) : KeyLess(decodeKeyFast(m, getKeyPacked(m, n)), k)
     /\ IsSearchTree(m, getLeft(m, n))
     /\ IsSearchTree(m, getRight(m, n))

\* C37: iterating any map made by set and delete visits every key it holds
\* once, in strictly ascending byte-wise order, and its tree is a binary
\* search tree over those keys
C37_AscendingIteration ==
  \A i \in DOMAIN srt.hs :
    LET es == entriesNatural(srt.eng.mem, srt.hs[i].obj)
    IN /\ Len(es) = Cardinality(DOMAIN srt.hs[i].ref)
       /\ {es[j][1] : j \in DOMAIN es} = DOMAIN srt.hs[i].ref
       /\ \A j \in 1 .. (Len(es) - 1) : KeyLess(es[j][1], es[j + 1][1])
       /\ IsSearchTree(srt.eng.mem, srt.hs[i].obj.root)
       /\ TreeKeys(srt.eng.mem, srt.hs[i].obj.root) = DOMAIN srt.hs[i].ref

\* the offset of the i-th record of a batch of keys
RECURSIVE RecOff(_, _)
RecOff(ks, i) == IF i = 1 THEN 0 ELSE RecOff(ks, i - 1) + 4 + Len(ks[i - 1])

\* C38: batchGet stores at BATCH_BUF + 4i the leaf pointer get returns for the
\* i-th key of the batch, whatever the key lengths, the empty key included,
\* and when it comes to a record, that record and the ones after it are still
\* as the caller wrote them
C38_BatchGet ==
  [][last'.op = "batchGet" =>
       \A i \in 1 .. Len(last'.keys) :
         /\ load32(mem', BATCH_BUF + 4 * (i - 1)) = Lookup(mem, last'.root, last'.keys[i])
         /\ LET mi == batchGetLoop(writeDeleteBatch(mem, last'.keys, 1, 0), last'.root,
                                   0, i - 1, 0)
            IN \A j \in i .. Len(last'.keys) :
                 /\ load32(mi, BATCH_BUF + RecOff(last'.keys, j)) = Len(last'.keys[j])
                 /\ readBytes(mi, BATCH_BUF + RecOff(last'.keys, j) + 4, Len(last'.keys[j]))
                      = last'.keys[j]]_vars
\* a batch of MaxGet records that begins with the empty key was looked up in a
\* root of two leaves that holds the empty key and lacks the last key asked for
C38_Witness ==
  /\ last.op = "batchGet"
  /\ last.count = MaxGet
  /\ last.count >= 2
  /\ last.keys[1] = KeyEmpty
  /\ Len(IterLeaves(mem, last.root)) = 2
  /\ load32(mem, BATCH_BUF) # 0
  /\ load32(mem, BATCH_BUF + 4 * (last.count - 1)) = 0

====
